---- MODULE Spec2Model ----
(***************************************************************************)
(* Model of the strata-node SDK (src/stratadb.js) on top of the storage    *)
(* engine it binds to.  The JavaScript layer (namespace classes, snapshot  *)
(* classes, at(), transaction()) is translated from src/stratadb.js.  The  *)
(* engine behind the native methods (kvPut, stateCas, begin, commit, ...)  *)
(* is not part of the sources; it is modelled from the specification.      *)
(*                                                                         *)
(* Encoding: JSON values are the integers of Vals, JSON null / a missing   *)
(* result is Null (0), an omitted argument or option is Undefined (-1).    *)
(* Keys are sequences of character codes, so that prefixes and the         *)
(* lexicographic order are computed, not assumed.                          *)
(***************************************************************************)
EXTENDS Integers, Sequences, FiniteSets, TLC

\* ------------------------------------------------------------------------
\* Bounds of the model
\* ------------------------------------------------------------------------
MaxCalls == 3

MaxTime == 2

MaxBranchOps == 4

\* the documents a store is opened with, at most (two more than a page)
MaxDocs == 102

\* ------------------------------------------------------------------------
\* Input domains
\* ------------------------------------------------------------------------
Null == 0

Undefined == 0 - 1

Vals == {1, 2}

Keys == {<<1>>, <<1, 2>>}

Prims == {"kv", "state", "json"}

Writers == {1, 2}

\* prefixes for key listing; NoPrefix is the omitted prefix
NoPrefix == <<>>

Prefixes == {NoPrefix, <<1>>, <<1, 2>>}

\* pagination cursors: a key, or NoCursor when omitted
NoCursor == <<>>

EventTypes == {"t1", "t2"}

Collections == {"c"}

VKeys == {1, 2}

Embeddings == {<<1, 0>>, <<0, 1>>}

\* the numbers that are not finite
NaN == 0 - 2

Infinity == 0 - 3

\* the vectors a caller may pass: also of another length, also not finite
Vectors == Embeddings \cup {<<1>>, <<1, NaN>>, <<Infinity, 0>>}

\* the omitted metric, and the omitted filter (a filter is a conjunction,
\* so an empty list of predicates selects what no filter selects)
NoMetric == ""

NoFilter == <<>>

Times == 1..MaxTime

\* the branch and space names a caller passes
Branches == {"default", "feature"}

Spaces == {"default", "other"}

VARIABLES
  now,      \* the engine's wall clock (timestamp source of the VersionClock)
  version,  \* the last version issued by the VersionClock
  store,    \* store[p][k]: history (oldest first) of key k of primitive p
  txn,      \* the handle's transaction: id, status, readOnly, buffered writes
  atBegin,  \* history variable: the committed store when txn began
  events,   \* the event log: events[i] has sequence number i - 1
  vectors,  \* vectors[c]: Null-configured or a collection and its records
  bm,       \* BranchManager: current branch and space, the branch graph, and
            \* the data of every (branch, space) other than the current one
  req,      \* the last API call as the caller issued it: method, arguments
  ret,      \* what that call returned (val) or raised (err)
  ncalls,   \* number of primitive and transaction calls made so far
  wr,       \* logical writers coordinating through read-version / cas
  tx        \* the db.transaction(fn, opts) call in flight: position, outcome

vars ==
  <<now, version, store, txn, atBegin, events, vectors, bm, req, ret, ncalls,
    wr, tx>>

\* ------------------------------------------------------------------------
\* PrimitiveStore (engine; modelled from spec.md sections 3 and 4.1)
\* ------------------------------------------------------------------------
VersionedRecord(value, ver, ts) == [value |-> value, version |-> ver, timestamp |-> ts]

Latest(h) == h[Len(h)]

\* the key currently holds a value (its newest record is not a tombstone)
Exists(h) == Len(h) > 0 /\ Latest(h).value # Null

\* index of the last record with timestamp <= asOf, 0 when there is none
AsOfIndex(h, asOf) ==
  LET idx == {i \in 1..Len(h) : h[i].timestamp <= asOf}
  IN IF idx = {} THEN 0 ELSE CHOOSE i \in idx : \A j \in idx : j <= i

\* the record a read resolves to: newest, or newest at or before asOf
RecordAt(h, asOf) ==
  IF asOf = Undefined
  THEN (IF Len(h) = 0 THEN Null ELSE Len(h))
  ELSE AsOfIndex(h, asOf)

\* buffered writes of the active transaction for (p, key), oldest first
Buffered(p, key) ==
  SelectSeq(txn.buffer, LAMBDA w : w.prim = p /\ w.key = key)

\* get(key, asOf?): read-your-own-writes over the committed state
Get(p, key, asOf) ==
  LET h == store[p][key]
      b == Buffered(p, key)
      i == RecordAt(h, asOf)
  IN IF asOf = Undefined /\ txn.status = "active" /\ Len(b) > 0
     THEN b[Len(b)].value
     ELSE IF i = 0 THEN Null ELSE h[i].value

\* getVersioned(key): the current record, Null when absent or deleted
GetVersioned(p, key) ==
  LET h == store[p][key]
  IN IF Exists(h) THEN Latest(h) ELSE VersionedRecord(Null, Null, Null)

\* history(key): the committed records of the key
History(p, key) == store[p][key]

\* the outcome of a native call: what it returned (val) or raised (err)
\* (a native method is async: it never throws at the call itself)
Done(method, val, err) ==
  ret' = [method |-> method, val |-> val, err |-> err, thrown |-> FALSE]

\* a versioned write (value = Null writes a tombstone): applied directly,
\* or buffered against the active transaction
Write(method, p, key, value, result) ==
  IF txn.status = "active"
  THEN IF txn.readOnly
       THEN /\ Done(method, Null, "StateError")
            /\ UNCHANGED <<now, version, store, txn, atBegin, events, vectors, bm>>
       ELSE /\ txn' = [txn EXCEPT !.buffer =
                         Append(@, [prim |-> p, key |-> key, value |-> value])]
            /\ Done(method, result, "")
            /\ UNCHANGED <<now, version, store, atBegin, events, vectors, bm>>
  ELSE /\ version' = version + 1
       /\ store' = [store EXCEPT ![p][key] =
                      Append(@, VersionedRecord(value, version + 1, now))]
       /\ Done(method, result, "")
       /\ UNCHANGED <<now, txn, atBegin, events, vectors, bm>>

\* a call that changes nothing and reports val / err
NoWrite(method, val, err) ==
  /\ Done(method, val, err)
  /\ UNCHANGED <<now, version, store, txn, atBegin, events, vectors, bm>>

\* the value delete() would remove: the transaction's view of the key
Present(p, key) == Get(p, key, Undefined) # Null

stateSet(cell, value) ==
  Write("stateSet", "state", cell, value, version + 1)

stateGet(cell, asOf) == Get("state", cell, asOf)

stateGetVersioned(cell) == GetVersioned("state", cell)

stateHistory(cell) == History("state", cell)

stateCas(cell, newValue, expectedVersion) ==
  LET cur == GetVersioned("state", cell)
      agree == IF expectedVersion = Undefined
               THEN ~Present("state", cell)
               ELSE Present("state", cell) /\ cur.version = expectedVersion
  IN IF agree
     THEN Write("stateCas", "state", cell, newValue, version + 1)
     ELSE NoWrite("stateCas", Null, "")

\* init(cell, value): a no-op returning the current version if the cell
\* exists, else creates it
stateInit(cell, value) ==
  IF Present("state", cell)
  THEN NoWrite("stateInit", GetVersioned("state", cell).version, "")
  ELSE Write("stateInit", "state", cell, value, version + 1)

stateDelete(cell) ==
  IF Present("state", cell)
  THEN Write("stateDelete", "state", cell, Null, 1)
  ELSE NoWrite("stateDelete", 0, "")

kvPut(key, value) ==
  Write("kvPut", "kv", key, value, version + 1)

kvGet(key, asOf) == Get("kv", key, asOf)

kvGetVersioned(key) == GetVersioned("kv", key)

kvHistory(key) == History("kv", key)

kvDelete(key) ==
  IF Present("kv", key)
  THEN Write("kvDelete", "kv", key, Null, 1)
  ELSE NoWrite("kvDelete", 0, "")

\* ------------------------------------------------------------------------
\* TransactionCoordinator (engine; modelled from spec.md section 4.5)
\* ------------------------------------------------------------------------
txnIsActive == txn.status = "active"

\* Null when no transaction is active, else the transaction's id
txnInfo == IF txn.status = "active" THEN txn.id ELSE Null

\* begin(readOnly?): fails if a transaction is already active on the handle
begin(readOnly) ==
  IF txn.status = "active"
  THEN NoWrite("begin", Null, "StateError")
  ELSE /\ txn' = [id |-> txn.id + 1, status |-> "active",
                  readOnly |-> (readOnly = TRUE), buffer |-> <<>>]
       /\ atBegin' = store
       /\ Done("begin", Null, "")
       /\ UNCHANGED <<now, version, store, events, vectors, bm>>

\* only the first buffered write is applied
Applied_first_only(buffer, commitVersion) ==
  [p \in Prims |-> [k \in Keys |->
     IF Len(buffer) > 0 /\ buffer[1].prim = p /\ buffer[1].key = k
     THEN Append(store[p][k],
                 VersionedRecord(buffer[1].value, commitVersion, now))
     ELSE store[p][k]]]

\* the committed store with the buffered writes applied: per key the
\* latest buffered write becomes one record carrying the commit version
Applied(buffer, commitVersion) ==
  [p \in Prims |-> [k \in Keys |->
     LET b == SelectSeq(buffer, LAMBDA w : w.prim = p /\ w.key = k)
     IN IF Len(b) = 0
        THEN store[p][k]
        ELSE Append(store[p][k],
                    VersionedRecord(b[Len(b)].value, commitVersion, now))]]

\* the transaction ends in status st and its buffer is discarded
Ended(st) == [txn EXCEPT !.status = st, !.buffer = <<>>]

\* commit(): applies the buffered writes as one atomic step and returns the
\* single commit version; a read-only transaction's commit is disallowed
\* or treated as rollback
commit ==
  IF txn.status # "active"
  THEN NoWrite("commit", Null, "StateError")
  ELSE IF txn.readOnly
       THEN \/ NoWrite("commit", Null, "StateError")
            \/ /\ txn' = Ended("rolledback")
               /\ Done("commit", version, "")
               /\ UNCHANGED <<now, version, store, atBegin, events, vectors, bm>>
       ELSE /\ version' = version + 1
            /\ store' = Applied(txn.buffer, version + 1)
            /\ txn' = Ended("committed")
            /\ Done("commit", version + 1, "")
            /\ UNCHANGED <<now, atBegin, events, vectors, bm>>

\* commit() failing in the store (conflict, I/O): none of the buffered
\* writes is applied and the transaction is over
commitFails ==
  /\ txn.status = "active"
  /\ ~txn.readOnly
  /\ txn' = Ended("rolledback")
  /\ Done("commit", Null, "IoError")
  /\ UNCHANGED <<now, version, store, atBegin, events, vectors, bm>>

\* rollback(): discards the buffer with no visible effect
rollback ==
  IF txn.status # "active"
  THEN NoWrite("rollback", Null, "StateError")
  ELSE /\ txn' = Ended("rolledback")
       /\ Done("rollback", Null, "")
       /\ UNCHANGED <<now, version, store, atBegin, events, vectors, bm>>

\* ------------------------------------------------------------------------
\* Retention pruning (engine; modelled from spec.md sections 3 and 5)
\* ------------------------------------------------------------------------
\* every record older than the threshold is removed, also the newest one
Pruned_all_older(h, threshold) ==
  SelectSeq(h, LAMBDA r : ~(r.timestamp < threshold))

\* the history without the records older than the threshold that another
\* record at or before the threshold supersedes
Pruned(h, threshold) ==
  SelectSeq(h, LAMBDA r :
    ~(/\ r.timestamp < threshold
      /\ \E j \in 1..Len(h) :
           h[j].version > r.version /\ h[j].timestamp <= threshold))

\* retentionApply(), for the threshold the retention policy yields: prunes
\* every history of every branch and space
retentionApply(threshold) ==
  /\ store' = [p \in Prims |-> [k \in Keys |-> Pruned(store[p][k], threshold)]]
  /\ bm' = [bm EXCEPT !.parked =
              [b \in DOMAIN @ |-> [sp \in DOMAIN @[b] |->
                 [@[b][sp] EXCEPT !.store =
                    [p \in Prims |-> [k \in Keys |->
                       Pruned(@[p][k], threshold)]]]]]]
  /\ Done("retentionApply", Null, "")
  /\ UNCHANGED <<now, version, txn, atBegin, events, vectors>>

\* compact(): the same pruning, triggered by hand
compact(threshold) ==
  /\ store' = [p \in Prims |-> [k \in Keys |-> Pruned(store[p][k], threshold)]]
  /\ bm' = [bm EXCEPT !.parked =
              [b \in DOMAIN @ |-> [sp \in DOMAIN @[b] |->
                 [@[b][sp] EXCEPT !.store =
                    [p \in Prims |-> [k \in Keys |->
                       Pruned(@[p][k], threshold)]]]]]]
  /\ Done("compact", Null, "")
  /\ UNCHANGED <<now, version, txn, atBegin, events, vectors>>

\* ------------------------------------------------------------------------
\* Key listing (engine; modelled from spec.md section 4.1)
\* ------------------------------------------------------------------------
IsPrefix(pre, key) ==
  Len(pre) <= Len(key) /\ SubSeq(key, 1, Len(pre)) = pre

\* the lexicographic order over key strings
LexLess(a, b) ==
  \E i \in 1..(Len(a) + 1) :
    /\ i <= Len(b)
    /\ \A j \in 1..(i - 1) : a[j] = b[j]
    /\ (i <= Len(a) => a[i] < b[i])

RECURSIVE Sorted(_)
Sorted(S) ==
  IF S = {}
  THEN <<>>
  ELSE LET m == CHOOSE x \in S : \A y \in S \ {x} : LexLess(x, y)
       IN <<m>> \o Sorted(S \ {m})

Take(seq, n) == SubSeq(seq, 1, IF n < Len(seq) THEN n ELSE Len(seq))

\* the keys of p under prefix that hold a value (as of asOf), in order
List(p, prefix, asOf) ==
  Sorted({k \in DOMAIN store[p] : IsPrefix(prefix, k) /\ Get(p, k, asOf) # Null})

kvList(prefix, asOf) == List("kv", prefix, asOf)

kvListPaginated(prefix, limit, asOf) ==
  [keys |-> Take(List("kv", prefix, asOf), limit)]

stateList(prefix, asOf) == List("state", prefix, asOf)

\* ------------------------------------------------------------------------
\* JsonDocument (engine; modelled from spec.md sections 3 and 4.1).  A
\* document {x, y} is encoded as the number 100 + 10 x + y, a field that is
\* absent as 0.
\* ------------------------------------------------------------------------
JsonDoc(x, y) == 100 + 10 * x + y

DocX(d) == (d - 100) \div 10

DocY(d) == (d - 100) % 10

Paths == {"$", "$.x", "$.y"}

PathGet(d, path) ==
  IF d = Null
  THEN Null
  ELSE CASE path = "$" -> d
         [] path = "$.x" -> DocX(d)
         [] path = "$.y" -> DocY(d)

\* the document d with value written at path (functional edit)
PathSet(d, path, value) ==
  CASE path = "$" -> value
    [] path = "$.x" -> JsonDoc(value, IF d = Null THEN 0 ELSE DocY(d))
    [] path = "$.y" -> JsonDoc(IF d = Null THEN 0 ELSE DocX(d), value)

\* a write at a path writes the whole resulting document as one record
jsonSet(key, path, value) ==
  Write("jsonSet", "json", key,
        PathSet(Get("json", key, Undefined), path, value), version + 1)

jsonGet(key, path, asOf) == PathGet(Get("json", key, asOf), path)

jsonGetVersioned(key) == GetVersioned("json", key)

jsonHistory(key) == History("json", key)

jsonList(limit, prefix, cursor, asOf) ==
  LET all == List("json", prefix, asOf)
      rest == SelectSeq(all, LAMBDA k : cursor = NoCursor \/ LexLess(cursor, k))
      page == Take(rest, limit)
  IN [keys |-> page,
      cursor |-> IF Len(rest) > Len(page) /\ Len(page) > 0
                 THEN page[Len(page)] ELSE NoCursor]

\* ------------------------------------------------------------------------
\* EventLog (engine; modelled from spec.md sections 3 and 4.2)
\* ------------------------------------------------------------------------
NoEvent == [type |-> "", value |-> Null, version |-> Null, timestamp |-> Null]

Visible(e, asOf) == asOf = Undefined \/ e.timestamp <= asOf

\* append(type, payload): the sequence number is the position in the log
eventAppend(eventType, payload) ==
  /\ events' = Append(events, [type |-> eventType, value |-> payload,
                               version |-> Len(events), timestamp |-> now])
  /\ Done("eventAppend", Len(events), "")
  /\ UNCHANGED <<now, version, store, txn, atBegin, vectors, bm>>

eventGet(sequence, asOf) ==
  IF sequence + 1 \in 1..Len(events) /\ Visible(events[sequence + 1], asOf)
  THEN events[sequence + 1]
  ELSE NoEvent

eventList(eventType, asOf) ==
  SelectSeq(events, LAMBDA e : e.type = eventType /\ Visible(e, asOf))

eventListPaginated(eventType, limit, after, asOf) ==
  LET rest == SelectSeq(eventList(eventType, asOf),
                        LAMBDA e : after = Undefined \/ e.version > after)
  IN IF limit = Undefined THEN rest ELSE Take(rest, limit)

eventLen == Len(events)

\* ------------------------------------------------------------------------
\* VectorIndex (engine; modelled from spec.md sections 3 and 4.3).  The
\* stored vectors of the model are unit vectors, for which the cosine is
\* the dot product; euclidean scores are negated squared distances.
\* ------------------------------------------------------------------------
NoCollection ==
  [dimension |-> 0, metric |-> NoMetric, created |-> Null,
   recs |-> [k \in VKeys |-> <<>>]]

\* the collection exists as of asOf: like a key, it is absent from reads
\* as of a time before its creation
CollectionAt(name, asOf) ==
  /\ vectors[name].dimension # 0
  /\ asOf = Undefined \/ vectors[name].created <= asOf

NoVector ==
  [key |-> Null, embedding |-> <<>>, metadata |-> Null,
   version |-> Null, timestamp |-> Null]

Metrics == {"cosine", "euclidean", "dot_product"}

vectorCreateCollection(name, dimension, metric) ==
  IF metric # NoMetric /\ metric \notin Metrics
  THEN NoWrite("vectorCreateCollection", Null, "ValidationError")
  ELSE IF vectors[name].dimension # 0
  THEN NoWrite("vectorCreateCollection", Null, "ConflictError")
  ELSE /\ vectors' = [vectors EXCEPT ![name] =
                        [dimension |-> dimension,
                         metric |-> IF metric = NoMetric THEN "cosine" ELSE metric,
                         created |-> now,
                         recs |-> [k \in VKeys |-> <<>>]]]
       /\ version' = version + 1
       /\ Done("vectorCreateCollection", version + 1, "")
       /\ UNCHANGED <<now, store, txn, atBegin, events, bm>>

\* every component of the vector is a finite number
Finite(vector) == \A i \in 1..Len(vector) : vector[i] \notin {NaN, Infinity}

\* upsert: one record per key, replaced by the upsert; the replaced ones
\* are kept as the key's history for reads as of an earlier time
vectorUpsert(collection, key, vector, metadata) ==
  IF vectors[collection].dimension = 0
  THEN NoWrite("vectorUpsert", Null, "NotFoundError")
  ELSE IF Len(vector) # vectors[collection].dimension
  THEN NoWrite("vectorUpsert", Null, "ConstraintError")
  ELSE IF ~Finite(vector)
  THEN NoWrite("vectorUpsert", Null, "ConstraintError")
  ELSE /\ vectors' = [vectors EXCEPT ![collection].recs[key] =
                        Append(@, [key |-> key, embedding |-> vector,
                                   metadata |-> metadata,
                                   version |-> version + 1, timestamp |-> now])]
       /\ version' = version + 1
       /\ Done("vectorUpsert", version + 1, "")
       /\ UNCHANGED <<now, store, txn, atBegin, events, bm>>

BatchVectorEntry(key, vector, metadata) ==
  [key |-> key, vector |-> vector, metadata |-> metadata]

\* the records of the collection after the entries are upserted in order,
\* the i-th with version first + i
RECURSIVE Upserted(_, _, _)
Upserted(recs, entries, first) ==
  IF Len(entries) = 0
  THEN recs
  ELSE LET e == Head(entries)
       IN Upserted([recs EXCEPT ![e.key] =
                      Append(@, [key |-> e.key, embedding |-> e.vector,
                                 metadata |-> e.metadata,
                                 version |-> first + 1, timestamp |-> now])],
                   Tail(entries), first + 1)

\* batchUpsert: all-or-nothing; every entry is checked before any is
\* stored, and one version per entry is returned, in entry order
vectorBatchUpsert(collection, entries) ==
  IF vectors[collection].dimension = 0
  THEN NoWrite("vectorBatchUpsert", Null, "NotFoundError")
  ELSE IF \E i \in 1..Len(entries) :
            \/ Len(entries[i].vector) # vectors[collection].dimension
            \/ ~Finite(entries[i].vector)
  THEN NoWrite("vectorBatchUpsert", Null, "ConstraintError")
  ELSE /\ vectors' = [vectors EXCEPT ![collection].recs =
                        Upserted(@, entries, version)]
       /\ version' = version + Len(entries)
       /\ Done("vectorBatchUpsert",
               [i \in 1..Len(entries) |-> version + i], "")
       /\ UNCHANGED <<now, store, txn, atBegin, events, bm>>

\* the record of key as of asOf, NoVector when there is none
VectorAt(collection, key, asOf) ==
  LET h == vectors[collection].recs[key]
      i == RecordAt(h, asOf)
  IN IF i = 0 THEN NoVector ELSE h[i]

vectorGet(collection, key, asOf) ==
  IF ~CollectionAt(collection, asOf)
  THEN [err |-> "NotFoundError", val |-> NoVector]
  ELSE [err |-> "", val |-> VectorAt(collection, key, asOf)]

Dot(a, b) == a[1] * b[1] + a[2] * b[2]

SqDist(a, b) ==
  (a[1] - b[1]) * (a[1] - b[1]) + (a[2] - b[2]) * (a[2] - b[2])

Score(metric, a, b) ==
  IF metric = "euclidean" THEN 0 - SqDist(a, b) ELSE Dot(a, b)

\* one predicate of a metadata filter, on the metadata value m
Holds(pred, m) ==
  /\ m # Null
  /\ CASE pred.op = "eq" -> m = pred.value
        [] pred.op = "ne" -> m # pred.value
        [] pred.op = "gt" -> m > pred.value
        [] pred.op = "gte" -> m >= pred.value
        [] pred.op = "lt" -> m < pred.value
        [] pred.op = "lte" -> m <= pred.value

\* candidates ranked by score descending, ties by key order
RECURSIVE Ranked(_, _)
Ranked(S, score) ==
  IF S = {}
  THEN <<>>
  ELSE LET m == CHOOSE x \in S : \A y \in S \ {x} :
                  score[x] > score[y] \/ (score[x] = score[y] /\ x < y)
       IN <<m>> \o Ranked(S \ {m}, score)

\* filter first, then rank, then keep the k best
vectorSearchFiltered(collection, query, k, metric, filter, asOf) ==
  IF ~CollectionAt(collection, asOf)
  THEN [err |-> "NotFoundError", val |-> <<>>]
  ELSE IF Len(query) # vectors[collection].dimension
  THEN [err |-> "ConstraintError", val |-> <<>>]
  ELSE IF metric # NoMetric /\ metric \notin Metrics
  THEN [err |-> "ValidationError", val |-> <<>>]
  ELSE LET used == IF metric = NoMetric THEN vectors[collection].metric ELSE metric
           cand == {key \in VKeys :
                      /\ VectorAt(collection, key, asOf) # NoVector
                      /\ \A i \in 1..Len(filter) :
                           Holds(filter[i], VectorAt(collection, key, asOf).metadata)}
           score == [key \in VKeys |->
                       Score(used, query, VectorAt(collection, key, asOf).embedding)]
           top == Take(Ranked(cand, score), k)
       IN [err |-> "",
           val |-> [i \in 1..Len(top) |->
                      [key |-> top[i], score |-> score[top[i]],
                       metadata |-> VectorAt(collection, top[i], asOf).metadata]]]

vectorSearch(collection, query, k, asOf) ==
  vectorSearchFiltered(collection, query, k, NoMetric, NoFilter, asOf)

\* CollectionInfo: count is the number of keys that hold a vector now
CollectionInfo(name) ==
  [name |-> name, dimension |-> vectors[name].dimension,
   metric |-> vectors[name].metric,
   count |-> Cardinality({k \in VKeys : VectorAt(name, k, Undefined) # NoVector})]

\* the collections that exist now (the model has one collection name)
vectorListCollections ==
  LET c == CHOOSE x \in Collections : TRUE
  IN IF CollectionAt(c, Undefined) THEN <<CollectionInfo(c)>> ELSE <<>>

vectorCollectionStats(collection) ==
  IF ~CollectionAt(collection, Undefined)
  THEN [err |-> "NotFoundError", val |-> CollectionInfo(collection)]
  ELSE [err |-> "", val |-> CollectionInfo(collection)]

\* ------------------------------------------------------------------------
\* BranchManager and Spaces (engine; modelled from spec.md sections 3 and
\* 4.4).  The arena of Spaces is keyed by (branch, space): `store`,
\* `events` and `vectors` are the data of the current pair, bm.parked holds
\* the data of every other pair.  The version clock is shared.
\* ------------------------------------------------------------------------
\* a Space that holds nothing
EmptyData ==
  [store |-> [p \in Prims |-> [k \in Keys |-> <<>>]],
   events |-> <<>>,
   vectors |-> [c \in Collections |-> NoCollection]]

\* Branch {id, parentId, status}: a name never used has status "none"
NoBranch == [status |-> "none", parentId |-> ""]

Branch(parentId) == [status |-> "active", parentId |-> parentId]

\* the data of the Space (b, s)
Data(b, s) ==
  IF b = bm.branch /\ s = bm.space
  THEN [store |-> store, events |-> events, vectors |-> vectors]
  ELSE bm.parked[b][s]

Active(b) == bm.branches[b].status = "active"

\* every BranchManager operation ends here: the new graph and pointers
\* (the operation is counted against the budget of the model)
Manage(next) == bm' = [next EXCEPT !.ops = bm.ops + 1]

\* an operation that changes no branch, no space and no data
Managed(method, val, err) ==
  /\ Done(method, val, err)
  /\ Manage(bm)
  /\ UNCHANGED <<now, version, store, txn, atBegin, events, vectors>>

\* move the current pointer to (b, s); the Space s of b exists from then on
Select(b, s) ==
  IF b = bm.branch /\ s = bm.space
  THEN /\ Manage([bm EXCEPT !.spaces[b] = @ \cup {s}])
       /\ UNCHANGED <<store, events, vectors>>
  ELSE /\ store' = bm.parked[b][s].store
       /\ events' = bm.parked[b][s].events
       /\ vectors' = bm.parked[b][s].vectors
       /\ Manage([bm EXCEPT !.branch = b, !.space = s,
                            !.spaces[b] = @ \cup {s},
                            !.parked[bm.branch][bm.space] =
                               Data(bm.branch, bm.space),
                            !.parked[b][s] = EmptyData])

currentBranch == bm.branch

\* switch(name): only an active branch can be selected
setBranch(name) ==
  IF ~Active(name)
  THEN Managed("setBranch", Null, "NotFoundError")
  ELSE /\ Select(name, bm.space)
       /\ Done("setBranch", Null, "")
       /\ UNCHANGED <<now, version, txn, atBegin>>

\* create(name): new branch with empty Spaces, parent unset, status active;
\* a deleted branch is terminal, its name is not given out again
createBranch(name) ==
  IF bm.branches[name].status # "none"
  THEN Managed("createBranch", Null,
               IF Active(name) THEN "ValidationError" ELSE "StateError")
  ELSE /\ Manage([bm EXCEPT !.branches[name] = Branch(""),
                            !.spaces[name] = {"default"},
                            !.parked[name] = [s \in Spaces |-> EmptyData]])
       /\ Done("createBranch", Null, "")
       /\ UNCHANGED <<now, version, store, txn, atBegin, events, vectors>>

\* the current state of a key (not its history): its newest record, and
\* nothing when the key is absent or deleted
CurrentState(h) == IF Exists(h) THEN <<Latest(h)>> ELSE <<>>

\* the current value of a key: Null when it is absent or deleted
ValueOf(h) == IF Exists(h) THEN Latest(h).value ELSE Null

\* the latest state of a vector: its newest record
VectorState(h) == IF Len(h) > 0 THEN <<Latest(h)>> ELSE <<>>

\* the logical copy of a Space: current primitive state and the latest
\* state of the vectors, no event-log history
Copy(d) ==
  [store |-> [p \in Prims |-> [k \in Keys |-> CurrentState(d.store[p][k])]],
   events |-> <<>>,
   vectors |-> [c \in Collections |->
                  [d.vectors[c] EXCEPT !.recs =
                     [k \in VKeys |-> VectorState(d.vectors[c].recs[k])]]]]

\* the keys a Space holds
KeysIn(d) ==
  Cardinality({pk \in Prims \X Keys : Len(CurrentState(d.store[pk[1]][pk[2]])) > 0})
  + Cardinality({ck \in Collections \X VKeys :
                   Len(d.vectors[ck[1]].recs[ck[2]]) > 0})

RECURSIVE Sum(_, _)
Sum(f, S) ==
  IF S = {} THEN 0
  ELSE LET x == CHOOSE y \in S : TRUE IN f[x] + Sum(f, S \ {x})

ForkResult(source, destination, keysCopied) ==
  [source |-> source, destination |-> destination, keysCopied |-> keysCopied]

\* fork(destination): destination becomes a child of the current branch
\* with a copy of every Space of it
forkBranch(destination) ==
  IF bm.branches[destination].status # "none"
  THEN Managed("forkBranch", Null,
               IF Active(destination) THEN "ValidationError" ELSE "StateError")
  ELSE LET src == bm.branch
           copied == [s \in Spaces |-> Copy(Data(src, s))]
       IN /\ Manage([bm EXCEPT !.branches[destination] = Branch(src),
                               !.base[destination] = version,
                               !.spaces[destination] = bm.spaces[src],
                               !.parked[destination] = copied])
          /\ Done("forkBranch",
                  ForkResult(src, destination,
                             Sum([s \in Spaces |-> KeysIn(copied[s])], Spaces)),
                  "")
          /\ UNCHANGED <<now, version, store, txn, atBegin, events, vectors>>

\* list(): the branches that exist
listBranches == {b \in Branches : Active(b)}

branchExists(name) == IF Active(name) THEN 1 ELSE 0

\* delete(name): the current branch is refused; otherwise the branch is
\* deleted for good with its Spaces and their data
deleteBranch(name) ==
  IF ~Active(name)
  THEN Managed("deleteBranch", Null, "NotFoundError")
  ELSE IF name = bm.branch
  THEN Managed("deleteBranch", Null, "ValidationError")
  ELSE /\ Manage([bm EXCEPT !.branches[name].status = "deleted",
                            !.spaces[name] = {},
                            !.parked[name] = [s \in Spaces |-> EmptyData]])
       /\ Done("deleteBranch", Null, "")
       /\ UNCHANGED <<now, version, store, txn, atBegin, events, vectors>>

\* the merge strategies; NoStrategy is the omitted argument
NoStrategy == ""

Strategies == {"strict", "last_writer_wins"}

\* the common ancestor version of two branches: the version clock when
\* the one was forked from the other, 0 when they share no ancestor
AncestorVersion(a, b) ==
  IF bm.branches[a].parentId = b THEN bm.base[a]
  ELSE IF bm.branches[b].parentId = a THEN bm.base[b]
  ELSE 0

\* key k of primitive p of Space d was written or deleted after version v
ModifiedSince(d, p, k, v) ==
  Len(d.store[p][k]) > 0 /\ Latest(d.store[p][k]).version > v

\* the keys of branch b modified since version v, as <<space, prim, key>>
Delta(b, v) ==
  {c \in Spaces \X Prims \X Keys : ModifiedSince(Data(b, c[1]), c[2], c[3], v)}

MergeConflict(key, space) == [key |-> key, space |-> space]

MergeResult(keysApplied, spacesMerged, conflicts) ==
  [keysApplied |-> keysApplied, spacesMerged |-> spacesMerged,
   conflicts |-> conflicts]

\* Space s of the current branch after the keys of delta are applied with
\* the value they have on source (a key deleted there is deleted here)
MergedSpace(source, s, delta, mergeVersion) ==
  [Data(bm.branch, s) EXCEPT !.store =
     [p \in Prims |-> [k \in Keys |->
        IF <<s, p, k>> \in delta
        THEN Append(@[p][k],
                    VersionedRecord(ValueOf(Data(source, s).store[p][k]),
                                    mergeVersion, now))
        ELSE @[p][k]]]]

\* merge(source, strategy?): applies the keys source modified since the
\* common ancestor into the current branch, as one atomic mutation; keys
\* modified on both sides are conflicts: strict refuses the merge,
\* last_writer_wins (the default) applies the source's value and lists them
mergeBranches(source, strategy) ==
  IF strategy # NoStrategy /\ strategy \notin Strategies
  THEN Managed("mergeBranches", Null, "ValidationError")
  ELSE IF ~Active(source)
  THEN Managed("mergeBranches", Null, "NotFoundError")
  ELSE IF source = bm.branch
  THEN Managed("mergeBranches", Null, "ValidationError")
  ELSE LET base == AncestorVersion(source, bm.branch)
           delta == Delta(source, base)
           both == delta \cap Delta(bm.branch, base)
           conflicts == {MergeConflict(c[3], c[1]) : c \in both}
           merged == [s \in Spaces |->
                        MergedSpace(source, s, delta, version + 1)]
       IN IF strategy = "strict" /\ both # {}
          THEN Managed("mergeBranches", Null, "ConflictError")
          ELSE /\ store' = merged[bm.space].store
               /\ version' = IF delta = {} THEN version ELSE version + 1
               /\ Manage([bm EXCEPT !.parked[bm.branch] =
                            [s \in Spaces |->
                               IF s = bm.space THEN @[s] ELSE merged[s]]])
               /\ Done("mergeBranches",
                       MergeResult(Cardinality(delta),
                                   Cardinality({c[1] : c \in delta}),
                                   conflicts),
                       "")
               /\ UNCHANGED <<now, txn, atBegin, events, vectors>>

currentSpace == bm.space

\* space.switch(name): selects the Space of the current branch
setSpace(name) ==
  /\ Select(bm.branch, name)
  /\ Done("setSpace", Null, "")
  /\ UNCHANGED <<now, version, txn, atBegin>>

\* space.create(name): registers the Space in the current branch
spaceCreate(name) ==
  /\ Manage([bm EXCEPT !.spaces[bm.branch] = @ \cup {name}])
  /\ Done("spaceCreate", Null, "")
  /\ UNCHANGED <<now, version, store, txn, atBegin, events, vectors>>

listSpaces == bm.spaces[bm.branch]

spaceExists(name) == IF name \in bm.spaces[bm.branch] THEN 1 ELSE 0

\* ------------------------------------------------------------------------
\* BranchNamespace, SpaceNamespace (src/stratadb.js)
\* ------------------------------------------------------------------------
BranchNamespace_current == currentBranch

BranchNamespace_switch_nowhere(name) == Managed("setBranch", Null, "")

BranchNamespace_switch(name) == setBranch(name)

BranchNamespace_create(name) == createBranch(name)

BranchNamespace_fork_create(destination) == createBranch(destination)

BranchNamespace_fork(destination) == forkBranch(destination)

BranchNamespace_list == listBranches

BranchNamespace_delete_current(name) == deleteBranch(bm.branch)

BranchNamespace_delete(name) == deleteBranch(name)

BranchNamespace_exists(name) == branchExists(name)

BranchNamespace_merge_self(source, opts) ==
  mergeBranches(bm.branch, opts.strategy)

BranchNamespace_merge_strict(source, opts) == mergeBranches(source, "strict")

BranchNamespace_merge(source, opts) == mergeBranches(source, opts.strategy)

SpaceNamespace_current == currentSpace

SpaceNamespace_switch_create(name) == spaceCreate(name)

SpaceNamespace_switch(name) == setSpace(name)

SpaceNamespace_create(name) == spaceCreate(name)

SpaceNamespace_list == listSpaces

SpaceNamespace_exists(name) == spaceExists(name)

\* ------------------------------------------------------------------------
\* KvNamespace (src/stratadb.js)
\* ------------------------------------------------------------------------
KvNamespace_set(key, value) == kvPut(key, value)

\* an omitted asOf is replaced by the current time
KvNamespace_get_asOfNow(key, opts) ==
  kvGet(key, IF opts.asOf = Undefined THEN now ELSE opts.asOf)

\* the asOf option is not forwarded
KvNamespace_get_current(key, opts) == kvGet(key, Undefined)

KvNamespace_get(key, opts) == kvGet(key, opts.asOf)

\* the delete is sent to the state cells
KvNamespace_delete_state(key) == stateDelete(key)

KvNamespace_delete(key) == kvDelete(key)

KvNamespace_keys(opts) ==
  IF opts.limit # Undefined
  THEN kvListPaginated(opts.prefix, opts.limit, opts.asOf).keys
  ELSE kvList(opts.prefix, opts.asOf)

\* the records are returned newest first
KvNamespace_history_newest_first(key) ==
  [i \in 1..Len(kvHistory(key)) |-> kvHistory(key)[Len(kvHistory(key)) + 1 - i]]

\* only the current record is returned
KvNamespace_history_current(key) == <<kvGetVersioned(key)>>

KvNamespace_history(key) == kvHistory(key)

KvNamespace_getVersioned(key) == kvGetVersioned(key)

\* ------------------------------------------------------------------------
\* StateNamespace (src/stratadb.js)
\* ------------------------------------------------------------------------
StateNamespace_set(cell, value) == stateSet(cell, value)

StateNamespace_get(cell, opts) == stateGet(cell, opts.asOf)

\* init writes like set
StateNamespace_init_set(cell, value) == stateSet(cell, value)

StateNamespace_init(cell, value) == stateInit(cell, value)

\* the expected version is not forwarded
StateNamespace_cas_unversioned(cell, newValue, opts) ==
  stateCas(cell, newValue, Undefined)

\* an omitted expected version is read as "the current version"
StateNamespace_cas_current(cell, newValue, opts) ==
  stateCas(cell, newValue,
           IF opts.expectedVersion = Undefined
           THEN stateGetVersioned(cell).version
           ELSE opts.expectedVersion)

StateNamespace_cas(cell, newValue, opts) ==
  stateCas(cell, newValue, opts.expectedVersion)

StateNamespace_delete(cell) == stateDelete(cell)

StateNamespace_keys(opts) == stateList(opts.prefix, opts.asOf)

StateNamespace_history(cell) == stateHistory(cell)

StateNamespace_getVersioned(cell) == stateGetVersioned(cell)

\* ------------------------------------------------------------------------
\* EventsNamespace, JsonNamespace, VectorNamespace (src/stratadb.js)
\* ------------------------------------------------------------------------
EventsNamespace_append(eventType, payload) == eventAppend(eventType, payload)

EventsNamespace_get_next(sequence, opts) ==
  eventGet(sequence + 1, opts.asOf)

EventsNamespace_get(sequence, opts) == eventGet(sequence, opts.asOf)

EventsNamespace_list_unpaginated(eventType, opts) ==
  eventList(eventType, opts.asOf)

EventsNamespace_list(eventType, opts) ==
  IF opts.limit # Undefined \/ opts.after # Undefined
  THEN eventListPaginated(eventType, opts.limit, opts.after, opts.asOf)
  ELSE eventList(eventType, opts.asOf)

EventsNamespace_count == eventLen

\* the path is not forwarded: every write is a write of the root
JsonNamespace_set_root(key, path, value) == jsonSet(key, "$", value)

JsonNamespace_set(key, path, value) == jsonSet(key, path, value)

JsonNamespace_get(key, path, opts) == jsonGet(key, path, opts.asOf)

JsonNamespace_history(key) == jsonHistory(key)

JsonNamespace_getVersioned(key) == jsonGetVersioned(key)

\* the default page size of vector.search is used
JsonNamespace_keys_ten(opts) ==
  LET limit == IF opts.limit = Undefined THEN 10 ELSE opts.limit
  IN jsonList(limit, opts.prefix, opts.cursor, opts.asOf)

JsonNamespace_keys(opts) ==
  LET limit == IF opts.limit = Undefined THEN 100 ELSE opts.limit
  IN jsonList(limit, opts.prefix, opts.cursor, opts.asOf)

VectorNamespace_createCollection(name, opts) ==
  vectorCreateCollection(name, opts.dimension, opts.metric)

VectorNamespace_upsert_fixed(collection, key, vector, opts) ==
  vectorUpsert(collection, key, <<1, 0>>, opts.metadata)

VectorNamespace_upsert(collection, key, vector, opts) ==
  vectorUpsert(collection, key, vector, opts.metadata)

VectorNamespace_batchUpsert_first(collection, entries) ==
  vectorBatchUpsert(collection, SubSeq(entries, 1, 1))

VectorNamespace_batchUpsert(collection, entries) ==
  vectorBatchUpsert(collection, entries)

VectorNamespace_get(collection, key, opts) ==
  vectorGet(collection, key, opts.asOf)

VectorNamespace_search_postfilter(collection, query, opts) ==
  LET k == IF opts.limit = Undefined THEN 10 ELSE opts.limit
      r == vectorSearchFiltered(collection, query, k, opts.metric, NoFilter,
                                opts.asOf)
  IN [r EXCEPT !.val =
        SelectSeq(@, LAMBDA m : \A i \in 1..Len(opts.filter) :
                                 Holds(opts.filter[i], m.metadata))]

VectorNamespace_search(collection, query, opts) ==
  LET k == IF opts.limit = Undefined THEN 10 ELSE opts.limit
  IN IF opts.metric # NoMetric \/ opts.filter # NoFilter
     THEN vectorSearchFiltered(collection, query, k, opts.metric,
                               opts.filter, opts.asOf)
     ELSE vectorSearch(collection, query, k, opts.asOf)

\* ------------------------------------------------------------------------
\* Read-only snapshot classes (src/stratadb.js): asOf is the _asOf field
\* the constructor stored, args the arguments of the call
\* ------------------------------------------------------------------------
\* throws before anything is handed to the database
readOnlyWrite ==
  /\ ret' = [method |-> "none", val |-> Null, err |-> "StateError",
             thrown |-> TRUE]
  /\ UNCHANGED <<now, version, store, txn, atBegin, events, vectors, bm>>

\* the write goes through to the database
KvSnapshot_set_writes(asOf, args) == kvPut(args[1], args[2])

KvSnapshot_set(asOf, args) == readOnlyWrite

\* the snapshot reads the branch and space the handle was opened on
KvSnapshot_get_default(asOf, key) ==
  LET h == Data("default", "default").store["kv"][key]
      i == AsOfIndex(h, asOf)
  IN IF i = 0 THEN Null ELSE h[i].value

KvSnapshot_get(asOf, key) == kvGet(key, asOf)

KvSnapshot_delete(asOf, args) == readOnlyWrite

\* the listing without a limit is not bound to the snapshot's time
KvSnapshot_keys_unbound(asOf, opts) ==
  IF opts.limit # Undefined
  THEN kvListPaginated(opts.prefix, opts.limit, asOf).keys
  ELSE kvList(opts.prefix, Undefined)

KvSnapshot_keys(asOf, opts) ==
  IF opts.limit # Undefined
  THEN kvListPaginated(opts.prefix, opts.limit, asOf).keys
  ELSE kvList(opts.prefix, asOf)

KvSnapshot_history(asOf, key) == kvHistory(key)

KvSnapshot_getVersioned(asOf, key) == kvGetVersioned(key)

StateSnapshot_set(asOf, args) == readOnlyWrite

StateSnapshot_get(asOf, cell) == stateGet(cell, asOf)

StateSnapshot_init(asOf, args) == readOnlyWrite

StateSnapshot_cas(asOf, args) == readOnlyWrite

StateSnapshot_delete(asOf, args) == readOnlyWrite

StateSnapshot_keys(asOf, opts) == stateList(opts.prefix, asOf)

StateSnapshot_history(asOf, cell) == stateHistory(cell)

StateSnapshot_getVersioned(asOf, cell) == stateGetVersioned(cell)

EventsSnapshot_append(asOf, args) == readOnlyWrite

EventsSnapshot_get(asOf, sequence) == eventGet(sequence, asOf)

EventsSnapshot_list(asOf, eventType, opts) ==
  IF opts.limit # Undefined \/ opts.after # Undefined
  THEN eventListPaginated(eventType, opts.limit, opts.after, asOf)
  ELSE eventList(eventType, asOf)

EventsSnapshot_count(asOf) == eventLen

JsonSnapshot_set(asOf, args) == readOnlyWrite

JsonSnapshot_get(asOf, key, path) == jsonGet(key, path, asOf)

JsonSnapshot_delete(asOf, args) == readOnlyWrite

JsonSnapshot_keys(asOf, opts) ==
  LET limit == IF opts.limit = Undefined THEN 100 ELSE opts.limit
  IN jsonList(limit, opts.prefix, opts.cursor, asOf)

JsonSnapshot_history(asOf, key) == jsonHistory(key)

JsonSnapshot_getVersioned(asOf, key) == jsonGetVersioned(key)

VectorSnapshot_createCollection(asOf, args) == readOnlyWrite

VectorSnapshot_deleteCollection(asOf, args) == readOnlyWrite

VectorSnapshot_listCollections(asOf) == vectorListCollections

VectorSnapshot_stats(asOf, collection) == vectorCollectionStats(collection)

VectorSnapshot_upsert(asOf, args) == readOnlyWrite

VectorSnapshot_get(asOf, collection, key) == vectorGet(collection, key, asOf)

VectorSnapshot_delete(asOf, args) == readOnlyWrite

VectorSnapshot_batchUpsert(asOf, args) == readOnlyWrite

VectorSnapshot_search(asOf, collection, query, opts) ==
  LET k == IF opts.limit = Undefined THEN 10 ELSE opts.limit
  IN IF opts.metric # NoMetric \/ opts.filter # NoFilter
     THEN vectorSearchFiltered(collection, query, k, opts.metric,
                               opts.filter, asOf)
     ELSE vectorSearch(collection, query, k, asOf)

\* db.at(timestamp): the namespace of the snapshot a mutator is called on
Snapshot_mutate(asOf, method, args) ==
  CASE method = "kv.set" -> KvSnapshot_set(asOf, args)
    [] method = "kv.delete" -> KvSnapshot_delete(asOf, args)
    [] method = "state.set" -> StateSnapshot_set(asOf, args)
    [] method = "state.init" -> StateSnapshot_init(asOf, args)
    [] method = "state.cas" -> StateSnapshot_cas(asOf, args)
    [] method = "state.delete" -> StateSnapshot_delete(asOf, args)
    [] method = "events.append" -> EventsSnapshot_append(asOf, args)
    [] method = "json.set" -> JsonSnapshot_set(asOf, args)
    [] method = "json.delete" -> JsonSnapshot_delete(asOf, args)
    [] method = "vector.createCollection" ->
         VectorSnapshot_createCollection(asOf, args)
    [] method = "vector.deleteCollection" ->
         VectorSnapshot_deleteCollection(asOf, args)
    [] method = "vector.upsert" -> VectorSnapshot_upsert(asOf, args)
    [] method = "vector.delete" -> VectorSnapshot_delete(asOf, args)
    [] method = "vector.batchUpsert" -> VectorSnapshot_batchUpsert(asOf, args)

\* ------------------------------------------------------------------------
\* NativeStrata.prototype.transaction (src/stratadb.js): one action per
\* await of the async function
\* ------------------------------------------------------------------------
\* begin is awaited inside the try block: its failure is handled by the
\* catch block, which rolls back
transaction_begin_in_try(opts) ==
  /\ tx.pc = "idle"
  /\ IF txn.status = "active" THEN rollback ELSE begin(opts.readOnly)
  /\ tx' = [tx EXCEPT !.pc = IF ret'.method = "begin" THEN "fn" ELSE "rejected",
                      !.begun = (ret'.method = "begin"),
                      !.readOnly = (opts.readOnly = TRUE),
                      !.err = IF ret'.method = "begin" THEN "" ELSE "StateError"]

\* await this.begin(opts?.readOnly): a failing begin rejects the call
\* before the try block is entered
transaction_begin(opts) ==
  /\ tx.pc = "idle"
  /\ begin(opts.readOnly)
  /\ tx' = [tx EXCEPT !.pc = IF ret'.err = "" THEN "fn" ELSE "rejected",
                      !.begun = (ret'.err = ""),
                      !.readOnly = (opts.readOnly = TRUE),
                      !.err = ret'.err]

\* the read-only branch is missing: commit in every case
transaction_settle_always_commits ==
  /\ tx.pc = "returned"
  /\ commit
  /\ tx' = [tx EXCEPT !.pc = IF ret'.err = "" THEN "resolved" ELSE "caught",
                      !.err = ret'.err,
                      !.commits = @ + 1]

\* the commit is missing: rollback in every case
transaction_settle_never_commits ==
  /\ tx.pc = "returned"
  /\ rollback
  /\ tx' = [tx EXCEPT !.pc = IF ret'.err = "" THEN "resolved" ELSE "caught",
                      !.err = ret'.err,
                      !.rollbacks = @ + 1]

\* fn has resolved: rollback for a read-only call, commit otherwise; an
\* error of either is caught by the catch block
transaction_settle ==
  /\ tx.pc = "returned"
  /\ IF tx.readOnly THEN rollback ELSE commit
  /\ tx' = [tx EXCEPT !.pc = IF ret'.err = "" THEN "resolved" ELSE "caught",
                      !.err = ret'.err,
                      !.commits = IF tx.readOnly THEN @ ELSE @ + 1,
                      !.rollbacks = IF tx.readOnly THEN @ + 1 ELSE @]

\* the same await when the store fails the commit
transaction_settle_commitFails ==
  /\ tx.pc = "returned"
  /\ ~tx.readOnly
  /\ commitFails
  /\ tx' = [tx EXCEPT !.pc = "caught", !.err = ret'.err, !.commits = @ + 1]

\* the catch block commits what was buffered before it rethrows
transaction_catch_commits ==
  /\ tx.pc = "caught"
  /\ commit
  /\ tx' = [tx EXCEPT !.pc = "rejected", !.commits = @ + 1]

\* the catch block rethrows without rolling back
transaction_catch_rethrows ==
  /\ tx.pc = "caught"
  /\ tx' = [tx EXCEPT !.pc = "rejected"]
  /\ UNCHANGED <<now, version, store, txn, atBegin, events, vectors, bm, ret>>

\* catch (err): rollback, ignoring its error, then rethrow err
transaction_catch ==
  /\ tx.pc = "caught"
  /\ rollback
  /\ tx' = [tx EXCEPT !.pc = "rejected", !.rollbacks = @ + 1]

\* ------------------------------------------------------------------------
\* Callers
\* ------------------------------------------------------------------------
\* one API call of a caller: the call budget bounds the model
Call(method, args, A) ==
  /\ ncalls < MaxCalls
  /\ ncalls' = ncalls + 1
  /\ req' = [method |-> method, args |-> args]
  /\ A

\* the expected versions a caller may pass: omitted, any issued, one unissued
ExpectedVersions == {Undefined} \cup (1..(version + 1))

StateCasOptions(e) == [expectedVersion |-> e]

Tick ==
  /\ now < MaxTime
  /\ now' = now + 1
  /\ UNCHANGED <<version, store, txn, atBegin, events, vectors, bm, req, ret, ncalls, wr, tx>>

StateSet ==
  \E c \in Keys, x \in Vals :
    Call("state.set", <<c, x>>, StateNamespace_set(c, x)) /\ UNCHANGED <<wr, tx>>

StateInit ==
  \E c \in Keys, x \in Vals :
    Call("state.init", <<c, x>>, StateNamespace_init(c, x)) /\ UNCHANGED <<wr, tx>>

StateCas ==
  \E c \in Keys, x \in Vals, e \in ExpectedVersions :
    /\ Call("state.cas", <<c, x, e>>,
            StateNamespace_cas(c, x, StateCasOptions(e)))
    /\ UNCHANGED <<wr, tx>>

StateDelete ==
  \E c \in Keys :
    Call("state.delete", <<c>>, StateNamespace_delete(c)) /\ UNCHANGED <<wr, tx>>

\* a logical writer reads the cell's current version (README: read the
\* version, then attempt the cas) ...
WriterRead ==
  \E w \in Writers, c \in Keys :
    /\ wr[w].pc = "idle"
    /\ wr' = [wr EXCEPT ![w] = [pc |-> "read", cell |-> c,
                                v |-> StateNamespace_getVersioned(c).version,
                                x |-> Null, res |-> Null]]
    /\ UNCHANGED <<now, version, store, txn, atBegin, events, vectors, bm, req, ret, ncalls, tx>>

\* ... and later issues the cas with the version it read (no
\* expectedVersion when the cell did not exist)
WriterCas ==
  \E w \in Writers, x \in Vals :
    /\ wr[w].pc = "read"
    /\ LET e == IF wr[w].v = Null THEN Undefined ELSE wr[w].v
       IN Call("state.cas", <<wr[w].cell, x, e>>,
               StateNamespace_cas(wr[w].cell, x, StateCasOptions(e)))
    /\ wr' = [wr EXCEPT ![w].pc = "done", ![w].x = x, ![w].res = ret'.val]
    /\ UNCHANGED tx

\* --- callers of the key-value store and of the manual transaction API ---
\* (the handle has one owner at a time: while db.transaction is in flight
\* the calls on the handle are those of its callback)
KvGetOptions(asOf) == [asOf |-> asOf]

NoOpts == [asOf |-> Undefined]

KvSet ==
  \E k \in Keys, v \in Vals :
    /\ tx.pc = "idle"
    /\ Call("kv.set", <<k, v>>, KvNamespace_set(k, v))
    /\ UNCHANGED <<wr, tx>>

KvDelete ==
  \E k \in Keys :
    /\ tx.pc = "idle"
    /\ Call("kv.delete", <<k>>, KvNamespace_delete(k))
    /\ UNCHANGED <<wr, tx>>

Begin ==
  \E ro \in {TRUE, FALSE} :
    /\ tx.pc \in {"idle", "fn"}
    /\ Call("begin", <<ro>>, begin(ro))
    /\ UNCHANGED <<wr, tx>>

Commit ==
  /\ tx.pc = "idle"
  /\ Call("commit", <<>>, commit)
  /\ UNCHANGED <<wr, tx>>

Rollback ==
  /\ tx.pc = "idle"
  /\ Call("rollback", <<>>, rollback)
  /\ UNCHANGED <<wr, tx>>

\* --- db.transaction(fn, opts) and its callback fn(tx) ---
TransactionOptions(readOnly) == [readOnly |-> readOnly]

Transaction ==
  \E ro \in {TRUE, FALSE} :
    /\ transaction_begin(TransactionOptions(ro))
    /\ UNCHANGED <<req, ncalls, wr>>

\* the callback writes through the handle it was given: tx.kv.set
CbSet ==
  \E k \in Keys, v \in Vals :
    /\ tx.pc = "fn"
    /\ Call("kv.set", <<k, v>>, KvNamespace_set(k, v))
    /\ tx' = [tx EXCEPT !.writes =
                 IF ret'.err = "" THEN Append(@, <<k, v>>) ELSE @]
    /\ UNCHANGED wr

\* tx.kv.delete
CbDelete ==
  \E k \in Keys :
    /\ tx.pc = "fn"
    /\ Call("kv.delete", <<k>>, KvNamespace_delete(k))
    /\ tx' = [tx EXCEPT !.writes =
                 IF ret'.err = "" /\ ret'.val = 1 THEN Append(@, <<k, Null>>) ELSE @]
    /\ UNCHANGED wr

\* the callback gives up: tx.rollback(), after which it throws
CbRollback ==
  /\ tx.pc = "fn"
  /\ Call("rollback", <<>>, rollback)
  /\ tx' = [tx EXCEPT !.pc = "aborting"]
  /\ UNCHANGED wr

\* the callback resolves with r
CbReturn ==
  \E r \in Vals :
    /\ tx.pc = "fn"
    /\ tx' = [tx EXCEPT !.pc = "returned", !.result = r]
    /\ UNCHANGED <<now, version, store, txn, atBegin, events, vectors, bm, req, ret, ncalls, wr>>

\* the callback throws (or rejects with) the error "intentional"
CbThrow ==
  /\ tx.pc \in {"fn", "aborting"}
  /\ tx' = [tx EXCEPT !.pc = "caught", !.err = "intentional", !.thrown = TRUE]
  /\ UNCHANGED <<now, version, store, txn, atBegin, events, vectors, bm, req, ret, ncalls, wr>>

\* db.transaction() has settled and the caller goes on: db.begin()
BeginAfter ==
  \E ro \in {TRUE, FALSE} :
    /\ tx.pc \in {"resolved", "rejected"}
    /\ Call("begin", <<ro>>, begin(ro))
    /\ UNCHANGED <<wr, tx>>

\* while fn is suspended on an await, another caller w writes through the
\* same handle, outside fn: db.kv.set(k, v)
OutsideKvSet ==
  \E w \in Writers, k \in Keys, v \in Vals :
    /\ tx.pc = "fn"
    /\ wr[w].pc = "idle"
    /\ Call("kv.set", <<k, v>>, KvNamespace_set(k, v))
    /\ wr' = [wr EXCEPT ![w] = [pc |-> "set", cell |-> k, v |-> Null,
                                x |-> v,
                                res |-> IF ret'.err = "" THEN 1 ELSE 0]]
    /\ UNCHANGED tx

TransactionSettle == transaction_settle /\ UNCHANGED <<req, ncalls, wr>>

TransactionSettleCommitFails ==
  transaction_settle_commitFails /\ UNCHANGED <<req, ncalls, wr>>

TransactionCatch == transaction_catch /\ UNCHANGED <<req, ncalls, wr>>

\* --- the other primitives ---
JsonSet ==
  \E k \in Keys, path \in Paths :
    /\ tx.pc = "idle"
    /\ LET value == CASE path = "$" -> JsonDoc(1, 1)
                      [] path = "$.x" -> 2
                      [] path = "$.y" -> 2
       IN Call("json.set", <<k, path, value>>, JsonNamespace_set(k, path, value))
    /\ UNCHANGED <<wr, tx>>

\* events and vectors are written outside transactions
EventAppend ==
  \E t \in EventTypes, x \in {1} :
    /\ tx.pc = "idle"
    /\ txn.status # "active"
    /\ Call("events.append", <<t, x>>, EventsNamespace_append(t, x))
    /\ UNCHANGED <<wr, tx>>

CreateCollectionOptions(metric) == [dimension |-> 2, metric |-> metric]

VectorCreateCollection ==
  \E c \in Collections, metric \in {NoMetric, "euclidean"} :
    /\ tx.pc = "idle"
    /\ txn.status # "active"
    /\ Call("vector.createCollection", <<c, metric>>,
            VectorNamespace_createCollection(c, CreateCollectionOptions(metric)))
    /\ UNCHANGED <<wr, tx>>

UpsertOptions(metadata) == [metadata |-> metadata]

VectorUpsert ==
  \E c \in Collections, k \in VKeys, v \in Embeddings, m \in Vals :
    /\ tx.pc = "idle"
    /\ txn.status # "active"
    /\ Call("vector.upsert", <<c, k, v, m>>,
            VectorNamespace_upsert(c, k, v, UpsertOptions(m)))
    /\ UNCHANGED <<wr, tx>>

\* upsert of any vector a caller may pass
VectorUpsertInput ==
  \E c \in Collections, k \in VKeys, v \in Vectors, m \in Vals :
    /\ tx.pc = "idle"
    /\ txn.status # "active"
    /\ Call("vector.upsert", <<c, k, v, m>>,
            VectorNamespace_upsert(c, k, v, UpsertOptions(m)))
    /\ UNCHANGED <<wr, tx>>

\* the batches a caller passes: one or two entries, valid or not
BatchEntries ==
  {BatchVectorEntry(k, v, 1) : k \in VKeys, v \in {<<1, 0>>, <<1>>, <<1, NaN>>}}

Batches == {<<e>> : e \in BatchEntries}
             \cup {<<e, f>> : e \in BatchEntries, f \in BatchEntries}

VectorBatchUpsert ==
  \E c \in Collections, entries \in Batches :
    /\ tx.pc = "idle"
    /\ txn.status # "active"
    /\ Call("vector.batchUpsert", <<c, entries>>,
            VectorNamespace_batchUpsert(c, entries))
    /\ UNCHANGED <<wr, tx>>

KvKeysOptions(prefix, limit) ==
  [prefix |-> prefix, limit |-> limit, asOf |-> Undefined]

\* kv.keys({prefix, limit}): all a caller can pass to get a page, and the
\* page is all the call resolves to
KvKeys ==
  \E prefix \in Prefixes, limit \in {Undefined, 1, 2} :
    /\ tx.pc = "idle"
    /\ Call("kv.keys", <<prefix, limit>>,
            NoWrite("kvListPaginated",
                    KvNamespace_keys(KvKeysOptions(prefix, limit)), ""))
    /\ UNCHANGED <<wr, tx>>

\* --- paging through the JSON documents ---
\* the document keys of a large store: one character each
DocKeys == {<<c>> : c \in 1..MaxDocs}

JsonKeysWith(cursor) ==
  [limit |-> Undefined, prefix |-> NoPrefix, cursor |-> cursor,
   asOf |-> Undefined]

\* db.json.keys(): the first page, no options given
JsonKeys ==
  /\ tx.pc = "idle"
  /\ Call("json.keys", <<NoCursor>>,
          NoWrite("jsonList", JsonNamespace_keys(JsonKeysWith(NoCursor)), ""))
  /\ UNCHANGED <<wr, tx>>

\* db.json.keys({cursor}): the caller passes the cursor of the page it
\* received last
JsonKeysNext ==
  /\ tx.pc = "idle"
  /\ ret.method = "jsonList"
  /\ ret.val.cursor # NoCursor
  /\ Call("json.keys", <<ret.val.cursor>>,
          NoWrite("jsonList",
                  JsonNamespace_keys(JsonKeysWith(ret.val.cursor)), ""))
  /\ UNCHANGED <<wr, tx>>

\* db.json.set(key, '$', doc) of the first or the last document key
JsonSetDoc ==
  \E k \in {<<1>>, <<MaxDocs>>} :
    /\ tx.pc = "idle"
    /\ Call("json.set", <<k, "$", JsonDoc(1, 1)>>,
            JsonNamespace_set(k, "$", JsonDoc(1, 1)))
    /\ UNCHANGED <<wr, tx>>

\* --- retention ---
\* the thresholds a retention policy can yield: any time up to the clock
Thresholds == 0..MaxTime

\* db.retentionApply(): the caller passes nothing; the threshold in force
\* is recorded with the call
RetentionApply ==
  \E threshold \in Thresholds :
    /\ tx.pc = "idle"
    /\ threshold <= now
    /\ Call("retentionApply", <<threshold>>, retentionApply(threshold))
    /\ UNCHANGED <<wr, tx>>

\* db.compact()
Compact ==
  \E threshold \in Thresholds :
    /\ tx.pc = "idle"
    /\ threshold <= now
    /\ Call("compact", <<threshold>>, compact(threshold))
    /\ UNCHANGED <<wr, tx>>

\* --- db.at(timestamp) ---
\* the timestamps a caller may pass to db.at(): omitted, before the first
\* write, any time of the clock, one in the future
SnapshotTimes == {Undefined} \cup (0..(MaxTime + 1))

SnapshotMutators ==
  {"kv.set", "kv.delete", "state.set", "state.init", "state.cas",
   "state.delete", "events.append", "json.set", "json.delete",
   "vector.createCollection", "vector.deleteCollection", "vector.upsert",
   "vector.delete", "vector.batchUpsert"}

\* db.at(ts).<namespace>.<mutator>(k, x)
SnapshotWrite ==
  \E ts \in {Undefined, 1}, m \in SnapshotMutators, k \in Keys, x \in Vals :
    /\ tx.pc = "idle"
    /\ Call("at", <<ts, m, <<k, x>>>>, Snapshot_mutate(ts, m, <<k, x>>))
    /\ UNCHANGED <<wr, tx>>

\* one BranchManager call of a caller, outside any transaction
BranchCall(method, args, A) ==
  /\ bm.ops < MaxBranchOps
  /\ tx.pc = "idle"
  /\ txn.status # "active"
  /\ req' = [method |-> method, args |-> args]
  /\ A
  /\ UNCHANGED <<ncalls, wr, tx>>

BranchCreate ==
  \E name \in Branches :
    BranchCall("branch.create", <<name>>, BranchNamespace_create(name))

BranchFork ==
  \E destination \in Branches :
    BranchCall("branch.fork", <<destination>>,
               BranchNamespace_fork(destination))

BranchSwitch ==
  \E name \in Branches :
    BranchCall("branch.switch", <<name>>, BranchNamespace_switch(name))

BranchDelete ==
  \E name \in Branches :
    BranchCall("branch.delete", <<name>>, BranchNamespace_delete(name))

BranchMergeOptions(strategy) == [strategy |-> strategy]

BranchMerge ==
  \E source \in Branches, strategy \in Strategies \cup {NoStrategy} :
    BranchCall("branch.merge", <<source, strategy>>,
               BranchNamespace_merge(source, BranchMergeOptions(strategy)))

SpaceSwitch ==
  \E name \in Spaces :
    BranchCall("space.switch", <<name>>, SpaceNamespace_switch(name))

Init ==
  /\ now = 1
  /\ version = 0
  /\ store = [p \in Prims |-> [k \in Keys |-> <<>>]]
  /\ txn = [id |-> 0, status |-> "none", readOnly |-> FALSE, buffer |-> <<>>]
  /\ atBegin = [p \in Prims |-> [k \in Keys |-> <<>>]]
  /\ req = [method |-> "none", args |-> <<>>]
  /\ events = <<>>
  /\ vectors = [c \in Collections |-> NoCollection]
  /\ bm = [branch |-> "default", space |-> "default", ops |-> 0,
           branches |-> [b \in Branches |->
                           IF b = "default" THEN Branch("") ELSE NoBranch],
           spaces |-> [b \in Branches |->
                         IF b = "default" THEN {"default"} ELSE {}],
           parked |-> [b \in Branches |-> [s \in Spaces |-> EmptyData]],
           base |-> [b \in Branches |-> 0]]
  /\ ret = [method |-> "none", val |-> Null, err |-> "", thrown |-> FALSE]
  /\ ncalls = 0
  /\ wr = [w \in Writers |-> [pc |-> "idle", cell |-> <<>>, v |-> Null,
                                  x |-> Null, res |-> Null]]
  /\ tx = [pc |-> "idle", begun |-> FALSE, readOnly |-> FALSE,
           result |-> Null, err |-> "",
           thrown |-> FALSE, writes |-> <<>>, commits |-> 0, rollbacks |-> 0]

NextState ==
  \/ StateSet
  \/ StateCas
  \/ StateDelete
  \/ WriterRead
  \/ WriterCas

SpecState == Init /\ [][NextState]_vars

\* the key-value store under manual transactions and db.transaction()
NextTxn ==
  \/ KvSet
  \/ KvDelete
  \/ Begin
  \/ Commit
  \/ Rollback
  \/ Transaction
  \/ CbSet
  \/ CbDelete
  \/ CbRollback
  \/ CbReturn
  \/ CbThrow
  \/ TransactionSettle
  \/ TransactionCatch

SpecTxn == Init /\ [][NextTxn]_vars

\* the same, with a store that may fail a commit
NextTxnFault ==
  \/ NextTxn
  \/ TransactionSettleCommitFails

SpecTxnFault == Init /\ [][NextTxnFault]_vars

\* snapshot mutators called on a handle with data and manual transactions
NextSnapWrite ==
  \/ KvSet
  \/ EventAppend
  \/ VectorCreateCollection
  \/ Begin
  \/ Commit
  \/ Rollback
  \/ SnapshotWrite

SpecSnapWrite == Init /\ [][NextSnapWrite]_vars

\* every primitive written over time, read through snapshots
NextSnap ==
  \/ Tick
  \/ KvSet
  \/ KvDelete
  \/ StateSet
  \/ JsonSet
  \/ EventAppend
  \/ VectorCreateCollection
  \/ VectorUpsert

SpecSnap == Init /\ [][NextSnap]_vars

\* the versioned stores (kv, state, json) written and deleted over time
NextTime ==
  \/ Tick
  \/ KvSet
  \/ KvDelete
  \/ StateSet
  \/ StateDelete
  \/ JsonSet

SpecTime == Init /\ [][NextTime]_vars

\* every way a record gets into a history: put, delete, cas, init,
\* json.set, directly or through a committed transaction
NextHist ==
  \/ Tick
  \/ KvSet
  \/ KvDelete
  \/ StateSet
  \/ StateInit
  \/ StateCas
  \/ StateDelete
  \/ JsonSet
  \/ Begin
  \/ Commit
  \/ Rollback

SpecHist == Init /\ [][NextHist]_vars

\* branches and spaces under kv writes
NextBranch ==
  \/ KvSet
  \/ KvDelete
  \/ BranchCreate
  \/ BranchFork
  \/ BranchSwitch
  \/ BranchDelete
  \/ SpaceSwitch

SpecBranch == Init /\ [][NextBranch]_vars

\* a branch is forked, both sides write, and the fork is merged back
NextMerge ==
  \/ KvSet
  \/ KvDelete
  \/ BranchFork
  \/ BranchSwitch
  \/ BranchMerge

SpecMerge == Init /\ [][NextMerge]_vars

\* the event logs of two spaces under appends, other writes and time
NextEvents ==
  \/ Tick
  \/ EventAppend
  \/ KvSet
  \/ SpaceSwitch

SpecEvents == Init /\ [][NextEvents]_vars

\* a vector collection under upserts and batches of any input
NextVector ==
  \/ VectorCreateCollection
  \/ VectorUpsertInput
  \/ VectorBatchUpsert

SpecVector == Init /\ [][NextVector]_vars

\* db.transaction() over a store that may fail a commit, and the caller's
\* next begin
NextSettle ==
  \/ NextTxnFault
  \/ BeginAfter

SpecSettle == Init /\ [][NextSettle]_vars

\* db.transaction() with other callers writing through the same handle
NextOwner ==
  \/ Transaction
  \/ CbSet
  \/ CbReturn
  \/ CbThrow
  \/ OutsideKvSet
  \/ TransactionSettle
  \/ TransactionCatch

SpecOwner == Init /\ [][NextOwner]_vars

\* a handle opened on a store that holds the first n JSON documents,
\* written at time 1 with the versions 1..n
InitDocs ==
  \E n \in 0..MaxDocs :
    /\ now = 1
    /\ version = n
    /\ store = [p \in Prims |->
                  IF p = "json"
                  THEN [k \in DocKeys |->
                          IF k[1] <= n
                          THEN <<VersionedRecord(JsonDoc(1, 1), k[1], 1)>>
                          ELSE <<>>]
                  ELSE [k \in Keys |-> <<>>]]
    /\ txn = [id |-> 0, status |-> "none", readOnly |-> FALSE, buffer |-> <<>>]
    /\ atBegin = store
    /\ req = [method |-> "none", args |-> <<>>]
    /\ events = <<>>
    /\ vectors = [c \in Collections |-> NoCollection]
    /\ bm = [branch |-> "default", space |-> "default", ops |-> 0,
             branches |-> [b \in Branches |->
                             IF b = "default" THEN Branch("") ELSE NoBranch],
             spaces |-> [b \in Branches |->
                           IF b = "default" THEN {"default"} ELSE {}],
             parked |-> [b \in Branches |-> [s \in Spaces |-> EmptyData]],
             base |-> [b \in Branches |-> 0]]
    /\ ret = [method |-> "none", val |-> Null, err |-> "", thrown |-> FALSE]
    /\ ncalls = 0
    /\ wr = [w \in Writers |-> [pc |-> "idle", cell |-> <<>>, v |-> Null,
                                    x |-> Null, res |-> Null]]
    /\ tx = [pc |-> "idle", begun |-> FALSE, readOnly |-> FALSE,
             result |-> Null, err |-> "",
             thrown |-> FALSE, writes |-> <<>>, commits |-> 0, rollbacks |-> 0]

\* a caller paging through the JSON documents of a large store
NextDocs ==
  \/ JsonKeys
  \/ JsonKeysNext
  \/ JsonSetDoc

SpecDocs == InitDocs /\ [][NextDocs]_vars

\* the state cells under set, init and delete
NextCell ==
  \/ Tick
  \/ StateSet
  \/ StateInit
  \/ StateDelete

SpecCell == Init /\ [][NextCell]_vars

\* the key-value store over time, with retention pruning
NextRetention ==
  \/ Tick
  \/ KvSet
  \/ KvDelete
  \/ RetentionApply
  \/ Compact

SpecRetention == Init /\ [][NextRetention]_vars

\* key-value writes over time on several branches and spaces
NextSnapBranch ==
  \/ Tick
  \/ KvSet
  \/ BranchFork
  \/ BranchSwitch
  \/ SpaceSwitch

SpecSnapBranch == Init /\ [][NextSnapBranch]_vars

\* a caller paging through the kv keys while keys are written
NextKeys ==
  \/ KvSet
  \/ KvDelete
  \/ KvKeys

SpecKeys == Init /\ [][NextKeys]_vars

\* ------------------------------------------------------------------------
\* Properties of the state cells (SpecState)
\* ------------------------------------------------------------------------
\* a step that is the API call method(args)
IsCall(method, args) ==
  /\ ncalls' = ncalls + 1
  /\ req'.method = method
  /\ req'.args = args

\* C1: for a cell whose current version is v, state.cas(cell, x,
\* {expectedVersion: e}) succeeds iff e = v; on success it returns a new
\* version greater than v and state.get(cell) returns x; on failure it
\* returns null and the cell's value, version and history are unchanged.
CasSucceedsIffVersionMatches ==
  [][\A c \in Keys, x \in Vals, e \in 1..(MaxCalls + 1) :
       (IsCall("state.cas", <<c, x, e>>) /\ stateGetVersioned(c).version # Null)
       => LET v == stateGetVersioned(c).version
          IN /\ (ret'.val # Null) <=> (e = v)
             /\ ret'.err = ""
             /\ ret'.val # Null =>
                  /\ ret'.val > v
                  /\ stateGetVersioned(c)'.version = ret'.val
                  /\ StateNamespace_get(c, [asOf |-> Undefined])' = x
             /\ ret'.val = Null =>
                  /\ StateNamespace_get(c, [asOf |-> Undefined])'
                       = StateNamespace_get(c, [asOf |-> Undefined])
                  /\ stateGetVersioned(c)' = stateGetVersioned(c)
                  /\ stateHistory(c)' = stateHistory(c)]_vars

\* C1 witness: a cas with expectedVersion v succeeded (it created the
\* cell's newest record), and the very next call, a cas with the now-stale
\* v and another value, has returned null.
CasStaleAfterSuccess ==
  /\ req.method = "state.cas"
  /\ ret.val = Null
  /\ \E w \in Writers :
       /\ wr[w].pc = "done"
       /\ wr[w].cell = req.args[1]
       /\ wr[w].v = req.args[3]
       /\ wr[w].res = Latest(stateHistory(req.args[1])).version
       /\ wr[w].res = version
       /\ wr[w].x # req.args[2]
       /\ StateNamespace_get(req.args[1], [asOf |-> Undefined]) = wr[w].x

\* writers that have finished after reading version v of cell c
Contenders(c, v) ==
  {w \in Writers : wr[w].pc = "done" /\ wr[w].cell = c /\ wr[w].v = v}

Winners(c, v) == {w \in Contenders(c, v) : wr[w].res # Null}

\* records written to c after version v by anyone but the winners
Intervening(c, v) ==
  {i \in 1..Len(stateHistory(c)) :
     /\ stateHistory(c)[i].version > v
     /\ \A w \in Winners(c, v) : stateHistory(c)[i].version # wr[w].res}

\* C2: when several writers read the same version v of a cell and each
\* issue state.cas with expectedVersion v, at most one cas succeeds, exactly
\* one when no other write to the cell intervenes, and the winner's record
\* is in the cell's history (no successful update is lost).
CasExactlyOneWinner ==
  \A c \in Keys, v \in 1..MaxCalls :
    /\ Cardinality(Winners(c, v)) <= 1
    /\ (Contenders(c, v) = Writers /\ Intervening(c, v) = {})
         => Cardinality(Winners(c, v)) = 1
    /\ \A w \in Winners(c, v) :
         \E i \in 1..Len(stateHistory(c)) :
           /\ stateHistory(c)[i].version = wr[w].res
           /\ stateHistory(c)[i].value = wr[w].x

\* C2 witness: both writers read the same version of a cell, both issued
\* their cas, nothing else wrote the cell, one won and one got null.
CasRaceDecided ==
  \E c \in Keys, v \in 1..MaxCalls :
    /\ Contenders(c, v) = Writers
    /\ Intervening(c, v) = {}
    /\ Cardinality(Winners(c, v)) = 1

\* ------------------------------------------------------------------------
\* Properties of transactions (SpecTxn, SpecTxnFault)
\* ------------------------------------------------------------------------
\* the records committed to (p, k) since the transaction began
NewRecords(p, k) ==
  SubSeq(store[p][k], Len(atBegin[p][k]) + 1, Len(store[p][k]))

\* the keys with records committed since the transaction began
Touched(p) == {k \in Keys : Len(store[p][k]) > Len(atBegin[p][k])}

\* the keys the callback has written, and its latest write to k
WrittenKeys == {tx.writes[i][1] : i \in 1..Len(tx.writes)}

LastWritten(k) ==
  LET idx == {i \in 1..Len(tx.writes) : tx.writes[i][1] = k}
  IN tx.writes[CHOOSE i \in idx : \A j \in idx : j <= i][2]

\* the committed current value of a kv key
Committed(k) ==
  IF Len(store["kv"][k]) = 0 THEN Null ELSE Latest(store["kv"][k]).value

\* the keys with buffered writes in the active transaction
BufferedKeys(p) ==
  {k \in Keys : \E i \in 1..Len(txn.buffer) :
     txn.buffer[i].prim = p /\ txn.buffer[i].key = k}

\* the committed state holds all of the buffered writes of the step's
\* transaction, as one record per key carrying the commit version cv
AllApplied(cv) ==
  \A p \in Prims, k \in Keys :
    IF k \in BufferedKeys(p)
    THEN /\ Len(store'[p][k]) = Len(store[p][k]) + 1
         /\ Latest(store'[p][k]).version = cv
         /\ Latest(store'[p][k]).value = Get(p, k, Undefined)
    ELSE store'[p][k] = store[p][k]

\* db.transaction() has settled after a begin that succeeded
Settled == tx.begun /\ tx.pc \in {"resolved", "rejected"}

\* C3: commit is atomic: a step taken while a transaction is active either
\* leaves the committed state as it is or applies every buffered write at
\* once under the single commit version that commit returns; and once
\* db.transaction() has settled, the records committed since its begin are
\* either none or one per key the callback wrote, all with one version.
CommitAllOrNothing ==
  [][/\ txn.status = "active" =>
          \/ store' = store
          \/ /\ ret'.method = "commit" /\ ret'.err = "" /\ ret'.val = version'
             /\ AllApplied(ret'.val)
             /\ txn'.status = "committed"
     /\ Settled' =>
          \/ store' = atBegin'
          \/ /\ Touched("kv")' = WrittenKeys'
             /\ \A p \in Prims, k \in Keys : Len(NewRecords(p, k)') <= 1
             /\ \A k \in WrittenKeys' :
                  /\ NewRecords("kv", k)'[1].value = LastWritten(k)'
                  /\ NewRecords("kv", k)'[1].version = version']_vars

\* C3 witness: a callback wrote two different keys and the commit has made
\* both visible under one commit version.
CommitAppliedTwoWrites ==
  /\ Settled
  /\ tx.pc = "resolved"
  /\ Cardinality(WrittenKeys) = 2
  /\ \A k \in Keys : Latest(store["kv"][k]).version = version
  /\ ret.method = "commit"
  /\ ret.val = version

\* C4: if the callback throws, the transaction is rolled back before the
\* error is re-raised: transaction() rejects with the callback's error
\* (also when that rollback fails), commit is never called, and none of
\* the callback's writes is visible afterwards.
ThrowRollsBack ==
  (tx.pc = "rejected" /\ tx.thrown) =>
     /\ tx.err = "intentional"
     /\ tx.commits = 0
     /\ tx.rollbacks = 1
     /\ ret.method = "rollback"
     /\ ~txnIsActive
     /\ store = atBegin
     /\ \A k \in Keys : KvNamespace_get(k, NoOpts) = Committed(k)

\* C4 witness: the callback wrote a key, rolled back itself and threw; the
\* rollback of the catch block failed and the call rejected all the same.
ThrowAfterWriteRejected ==
  /\ tx.pc = "rejected"
  /\ tx.thrown
  /\ tx.writes # <<>>
  /\ ret.method = "rollback"
  /\ ret.err = "StateError"

BeginStep ==
  \/ \E ro \in {TRUE, FALSE} : IsCall("begin", <<ro>>)
  \/ tx.pc = "idle" /\ tx'.pc # "idle"

\* C6: at most one transaction is active per handle: a begin while a
\* transaction is active fails with a State error and changes neither that
\* transaction nor its buffer; a transaction only moves active -> committed
\* or active -> rolledback; txnIsActive() is true exactly from a successful
\* begin to the following commit or rollback.
OneActiveTransaction ==
  [][/\ (BeginStep /\ txn.status = "active") =>
          /\ ret'.method = "begin" /\ ret'.err = "StateError"
          /\ txn' = txn
          /\ store' = store
     /\ (BeginStep /\ txn.status # "active") =>
          /\ ret'.method = "begin" /\ ret'.err = ""
          /\ txnIsActive'
          /\ txn'.id = txn.id + 1
          /\ txn'.buffer = <<>>
     /\ txn'.id # txn.id => (BeginStep /\ txn.status # "active")
     /\ (txn'.id = txn.id /\ txn'.status # txn.status) =>
          /\ txn.status = "active"
          /\ txn'.status \in {"committed", "rolledback"}
          /\ ret'.method \in {"commit", "rollback"}
     /\ (txnIsActive /\ ret'.method \in {"commit", "rollback"}
           /\ ret'.err = "" /\ (ret' # ret \/ txn' # txn)) => ~txnIsActive'
     /\ (txnInfo # Null) <=> txnIsActive]_vars

\* C6 witness: a begin was issued while a transaction with a buffered
\* write was active and failed with StateError; the transaction is active.
BeginRefusedWhileActive ==
  /\ req.method = "begin"
  /\ ret.method = "begin"
  /\ ret.err = "StateError"
  /\ txnIsActive
  /\ txn.buffer # <<>>

\* C7: read-your-own-writes: while the transaction of db.transaction() is
\* active, a read through the handle returns the callback's latest write
\* to the key if there is one and the committed value otherwise, and no
\* buffered write is part of the committed state; a rollback leaves the
\* committed state what it was before begin.
ReadYourOwnWrites ==
  [][/\ tx.pc \in {"fn", "returned"} =>
          /\ txnIsActive
          /\ store = atBegin
          /\ \A k \in Keys :
               KvNamespace_get(k, NoOpts)
                 = IF k \in WrittenKeys THEN LastWritten(k) ELSE Committed(k)
     /\ (txnIsActive /\ txn'.status = "rolledback") => store' = atBegin]_vars

\* C7 witness: inside the callback a key holds a buffered value that
\* differs from its committed value.
BufferedShadowsCommitted ==
  /\ tx.pc = "fn"
  /\ \E k \in WrittenKeys :
       /\ Committed(k) # Null
       /\ LastWritten(k) # Committed(k)
       /\ KvNamespace_get(k, NoOpts) = LastWritten(k)

\* C8: a read-only db.transaction() never commits: it ends the transaction
\* with rollback, resolves to the callback's return value and leaves the
\* committed state of every key as it was before the call.
ReadOnlyNeverCommits ==
  (tx.begun /\ tx.readOnly) =>
     /\ tx.commits = 0
     /\ store = atBegin
     /\ tx.result # Null => tx.pc \in {"returned", "resolved"}
     /\ tx.pc = "resolved" =>
          /\ tx.rollbacks = 1
          /\ tx.result \in Vals
          /\ ret.method = "rollback" /\ ret.err = ""
          /\ txn.status = "rolledback"

\* C8 witness: a read-only db.transaction() whose callback tried to write
\* has resolved, over a store that holds data.
ReadOnlyResolved ==
  /\ tx.begun
  /\ tx.readOnly
  /\ tx.pc = "resolved"
  /\ req.method = "kv.set"
  /\ \E k \in Keys : Committed(k) # Null

\* C9: every mutator of a snapshot returned by db.at(ts) (kv.set, kv.delete;
\* state.set, init, cas, delete; events.append; json.set, delete;
\* vector.createCollection, deleteCollection, upsert, delete, batchUpsert)
\* throws a StateError synchronously, whatever its arguments and whatever
\* the state of the handle; no database operation is invoked and nothing
\* of the database (data, versions, transaction) changes.
SnapshotMutatorsThrow ==
  [][\A ts \in SnapshotTimes, m \in SnapshotMutators, k \in Keys, x \in Vals :
       IsCall("at", <<ts, m, <<k, x>>>>)
       => /\ ret'.thrown
          /\ ret'.err = "StateError"
          /\ ret'.method = "none"
          /\ UNCHANGED <<now, version, store, txn, atBegin, events, vectors, bm>>]_vars

\* C9 witness: kv.set was called on a snapshot while a transaction with a
\* buffered write was active; it threw and the buffer is as it was.
SnapshotSetThrewInTransaction ==
  /\ req.method = "at"
  /\ req.args[2] = "kv.set"
  /\ ret.thrown
  /\ ret.err = "StateError"
  /\ txn.status = "active"
  /\ Len(txn.buffer) = 1

\* the options a caller may pass to a snapshot read (they have no asOf)
KeysOptions == [prefix : Prefixes, limit : {Undefined, 1}, asOf : {Undefined}]

StateKeysOptions == [prefix : Prefixes, asOf : {Undefined}]

EventsListOptions ==
  [limit : {Undefined, 1}, after : {Undefined, 0}, asOf : {Undefined}]

JsonKeysOptions ==
  [limit : {Undefined, 1}, prefix : Prefixes, cursor : {NoCursor, <<1>>},
   asOf : {Undefined}]

SearchOptions ==
  [limit : {Undefined, 1}, metric : {NoMetric, "euclidean"},
   filter : {NoFilter, <<[op |-> "eq", value |-> 1]>>}, asOf : {Undefined}]

\* the timestamps of the snapshots read: before the first write, every
\* time of the clock, one in the future
ReadTimes == 0..(MaxTime + 1)

SequenceNumbers == 0..MaxCalls

\* every read of the snapshot at ts, as one value
SnapshotReads(ts) ==
  <<[k \in Keys |-> KvSnapshot_get(ts, k)],
    [o \in KeysOptions |-> KvSnapshot_keys(ts, o)],
    [c \in Keys |-> StateSnapshot_get(ts, c)],
    [o \in StateKeysOptions |-> StateSnapshot_keys(ts, o)],
    [n \in SequenceNumbers |-> EventsSnapshot_get(ts, n)],
    [t \in EventTypes, o \in EventsListOptions |-> EventsSnapshot_list(ts, t, o)],
    [k \in Keys, p \in Paths |-> JsonSnapshot_get(ts, k, p)],
    [o \in JsonKeysOptions |-> JsonSnapshot_keys(ts, o)],
    [c \in Collections, k \in VKeys |-> VectorSnapshot_get(ts, c, k)],
    [c \in Collections, q \in Embeddings, o \in SearchOptions |->
       VectorSnapshot_search(ts, c, q, o)]>>

\* the same reads on the live handle with asOf = ts
LiveReads(ts) ==
  <<[k \in Keys |-> KvNamespace_get(k, [asOf |-> ts])],
    [o \in KeysOptions |-> KvNamespace_keys([o EXCEPT !.asOf = ts])],
    [c \in Keys |-> StateNamespace_get(c, [asOf |-> ts])],
    [o \in StateKeysOptions |-> StateNamespace_keys([o EXCEPT !.asOf = ts])],
    [n \in SequenceNumbers |-> EventsNamespace_get(n, [asOf |-> ts])],
    [t \in EventTypes, o \in EventsListOptions |->
       EventsNamespace_list(t, [o EXCEPT !.asOf = ts])],
    [k \in Keys, p \in Paths |-> JsonNamespace_get(k, p, [asOf |-> ts])],
    [o \in JsonKeysOptions |-> JsonNamespace_keys([o EXCEPT !.asOf = ts])],
    [c \in Collections, k \in VKeys |-> VectorNamespace_get(c, k, [asOf |-> ts])],
    [c \in Collections, q \in Embeddings, o \in SearchOptions |->
       VectorNamespace_search(c, q, [o EXCEPT !.asOf = ts])]>>

\* C10: each read of a snapshot db.at(ts) (kv.get, kv.keys, state.get,
\* state.keys, events.get, events.list, json.get, json.keys, vector.get,
\* vector.search) returns what the same call on the live handle returns
\* with asOf = ts, and a write made after ts does not change what the
\* snapshot returns.
SnapshotReadsAsOf ==
  /\ [](\A ts \in ReadTimes : SnapshotReads(ts) = LiveReads(ts))
  /\ [][\A ts \in 0..MaxTime :
          (ts < now /\ ncalls' = ncalls + 1)
          => SnapshotReads(ts)' = SnapshotReads(ts)]_vars

\* C10 witness: a key was set, and set again at a later time, and an event
\* was appended at the later time; the snapshot at the earlier time returns
\* the first value and no event, the live handle the second and the event.
SnapshotSeesThePast ==
  \E k \in Keys, t \in EventTypes :
    /\ KvSnapshot_get(1, k) # Null
    /\ KvNamespace_get(k, NoOpts) # Null
    /\ KvSnapshot_get(1, k) # KvNamespace_get(k, NoOpts)
    /\ EventsSnapshot_list(1, t, [limit |-> Undefined, after |-> Undefined,
                                  asOf |-> Undefined]) = <<>>
    /\ EventsNamespace_list(t, [limit |-> Undefined, after |-> Undefined,
                                asOf |-> Undefined]) # <<>>

\* the elements of a sequence with a timestamp at or before ts
NotAfter(seq, ts) == SelectSeq(seq, LAMBDA r : r.timestamp <= ts)

\* C11: the reads of a snapshot db.at(ts) that take no asOf option are bound
\* to ts as well: history and getVersioned (kv, state, json) return no
\* record with a timestamp greater than ts, events.count() counts no event
\* after ts, vector.stats() counts no vector written after ts and
\* vector.listCollections() lists no collection created after ts.
SnapshotBoundForAllReads ==
  \A ts \in 0..MaxTime :
    /\ \A k \in Keys :
         /\ KvSnapshot_history(ts, k) = NotAfter(KvSnapshot_history(ts, k), ts)
         /\ KvSnapshot_getVersioned(ts, k).timestamp <= ts
         /\ StateSnapshot_history(ts, k) = NotAfter(StateSnapshot_history(ts, k), ts)
         /\ StateSnapshot_getVersioned(ts, k).timestamp <= ts
         /\ JsonSnapshot_history(ts, k) = NotAfter(JsonSnapshot_history(ts, k), ts)
         /\ JsonSnapshot_getVersioned(ts, k).timestamp <= ts
    /\ EventsSnapshot_count(ts) <= Len(NotAfter(events, ts))
    /\ \A c \in Collections :
         /\ VectorSnapshot_stats(ts, c).val.count
              <= Cardinality({k \in VKeys : VectorAt(c, k, ts) # NoVector})
         /\ \A i \in 1..Len(VectorSnapshot_listCollections(ts)) :
              VectorSnapshot_listCollections(ts)[i].name = c
              => vectors[c].created <= ts

\* the value of the last element of a sequence of records, Null when empty
LastValue(seq) == IF seq = <<>> THEN Null ELSE seq[Len(seq)].value

\* C12: for every key and every timestamp t, kv.get(key, {asOf: t}) returns
\* the value of the latest record of the key's history with timestamp <= t,
\* and null when no record has a timestamp <= t, even if the key exists
\* now; so with a record v1 at or before t1 and the next record v2 after
\* t1, get(k, {asOf: t1}) = v1 while get(k) = v2.
GetAsOfIsLatestNotAfter ==
  \A k \in Keys :
    /\ \A t \in 0..(MaxTime + 1) :
         KvNamespace_get(k, KvGetOptions(t)) = LastValue(NotAfter(kvHistory(k), t))
    /\ \A i \in 1..(Len(kvHistory(k)) - 1), t1 \in Times :
         (/\ i + 1 = Len(kvHistory(k))
          /\ kvHistory(k)[i].timestamp <= t1
          /\ t1 < kvHistory(k)[i + 1].timestamp)
         => /\ KvNamespace_get(k, KvGetOptions(t1)) = kvHistory(k)[i].value
            /\ KvNamespace_get(k, NoOpts) = kvHistory(k)[i + 1].value

\* C12 witness: a key was set to v1 at time 1 and to another value v2 at
\* time 2: as of 1 it reads v1, now it reads v2, and as of 0 it reads null.
TimeTravelReadsTheOldValue ==
  \E k \in Keys :
    /\ Len(kvHistory(k)) = 2
    /\ kvHistory(k)[1].timestamp = 1
    /\ kvHistory(k)[2].timestamp = 2
    /\ kvHistory(k)[1].value # Null
    /\ kvHistory(k)[2].value # Null
    /\ kvHistory(k)[1].value # kvHistory(k)[2].value
    /\ KvNamespace_get(k, KvGetOptions(1)) = kvHistory(k)[1].value
    /\ KvNamespace_get(k, NoOpts) = kvHistory(k)[2].value
    /\ KvNamespace_get(k, KvGetOptions(0)) = Null

\* the documents the model can hold
JsonDocs == {JsonDoc(x, y) : x \in 0..2, y \in 0..2}

\* the step is the call of method on key k, and so was the call before it
SetAgain(method, k) ==
  /\ req.method = method
  /\ req.args[1] = k
  /\ ncalls' = ncalls + 1
  /\ req'.method = method
  /\ req'.args[1] = k

PutAppendsToHistory ==
  [][\A k \in Keys, v \in Vals :
       IsCall("kv.set", <<k, v>>)
       => LET old == KvNamespace_history(k)
              new == KvNamespace_history(k)'
          IN /\ ret'.err = ""
             /\ ret'.val > 0
             /\ KvNamespace_get(k, NoOpts)' = v
             /\ Len(new) = Len(old) + 1
             /\ SubSeq(new, 1, Len(old)) = old
             /\ new[Len(new)].value = v
             /\ new[Len(new)].version = ret'.val
             /\ \A i \in 1..Len(old) : old[i].version < ret'.val]_vars

\* C14 witness: the last two calls were put(k, v1) and put(k, v2) with
\* different values; the history of k holds both records
PutTwice ==
  \E k \in Keys :
    /\ req.method = "kv.set"
    /\ req.args[1] = k
    /\ Len(KvNamespace_history(k)) = 2
    /\ KvNamespace_history(k)[1].value # Null
    /\ KvNamespace_history(k)[2].value # Null
    /\ KvNamespace_history(k)[1].value # KvNamespace_history(k)[2].value
    /\ KvNamespace_history(k)[1].version < KvNamespace_history(k)[2].version
    /\ KvNamespace_get(k, NoOpts) = KvNamespace_history(k)[2].value

\* versions strictly increasing, timestamps non-decreasing along h
WellOrdered(h) ==
  \A i \in 1..(Len(h) - 1) :
    /\ h[i].version < h[i + 1].version
    /\ h[i].timestamp <= h[i + 1].timestamp

\* vv is null, or the record of h with the greatest version
IsNewestOf(vv, h) ==
  vv.version # Null =>
    /\ \E i \in 1..Len(h) : h[i] = vv
    /\ \A i \in 1..Len(h) : h[i].version <= vv.version

Deleted(h) == Len(h) > 0 /\ Latest(h).value = Null

\* C16: delete(key) on an existing key is a versioned write: it returns
\* true, get(key) without asOf returns null from then on until the key is
\* written again, get(key, {asOf: t}) for a t before the delete is what it
\* was (for a t at or after the last put: the pre-delete value), and
\* history(key) still exposes the records written before the delete.
DeleteIsVersionedWrite ==
  /\ [](\A k \in Keys :
          /\ Deleted(KvNamespace_history(k)) => KvNamespace_get(k, NoOpts) = Null
          /\ Deleted(StateNamespace_history(k))
               => StateNamespace_get(k, [asOf |-> Undefined]) = Null)
  /\ [][\A k \in Keys, v \in Vals :
          /\ (IsCall("kv.delete", <<k>>) /\ KvNamespace_get(k, NoOpts) = v)
             => LET old == KvNamespace_history(k)
                    new == KvNamespace_history(k)'
                IN /\ ret'.val = 1
                   /\ ret'.err = ""
                   /\ KvNamespace_get(k, NoOpts)' = Null
                   /\ Len(new) = Len(old) + 1
                   /\ SubSeq(new, 1, Len(old)) = old
                   /\ new[Len(new)].version > old[Len(old)].version
                   /\ \A t \in 0..(MaxTime + 1) :
                        t < new[Len(new)].timestamp
                        => /\ KvNamespace_get(k, KvGetOptions(t))'
                                = KvNamespace_get(k, KvGetOptions(t))
                           /\ old[Len(old)].timestamp <= t
                                => KvNamespace_get(k, KvGetOptions(t))' = v
          /\ (/\ IsCall("state.delete", <<k>>)
              /\ StateNamespace_get(k, [asOf |-> Undefined]) = v)
             => LET old == StateNamespace_history(k)
                    new == StateNamespace_history(k)'
                IN /\ ret'.val = 1
                   /\ ret'.err = ""
                   /\ StateNamespace_get(k, [asOf |-> Undefined])' = Null
                   /\ Len(new) = Len(old) + 1
                   /\ SubSeq(new, 1, Len(old)) = old
                   /\ \A t \in 0..(MaxTime + 1) :
                        t < new[Len(new)].timestamp
                        => /\ StateNamespace_get(k, [asOf |-> t])'
                                = StateNamespace_get(k, [asOf |-> t])
                           /\ old[Len(old)].timestamp <= t
                                => StateNamespace_get(k, [asOf |-> t])' = v]_vars

\* C16 witness: a key put at time 1 was deleted at time 2: delete returned
\* true, the key reads null now and its value as of time 1, and the
\* history holds the put and the tombstone
DeletedKeyReadsInThePast ==
  \E k \in Keys :
    /\ req.method = "kv.delete"
    /\ req.args = <<k>>
    /\ ret.val = 1
    /\ Len(KvNamespace_history(k)) = 2
    /\ KvNamespace_history(k)[1].timestamp = 1
    /\ KvNamespace_history(k)[2].timestamp = 2
    /\ KvNamespace_get(k, NoOpts) = Null
    /\ KvNamespace_get(k, KvGetOptions(1)) = KvNamespace_history(k)[1].value
    /\ KvNamespace_get(k, KvGetOptions(1)) # Null

\* ------------------------------------------------------------------------
\* Properties of branches and spaces (SpecBranch)
\* ------------------------------------------------------------------------
\* the step is the BranchManager call method(args)
IsBranchCall(method, args) ==
  /\ bm'.ops = bm.ops + 1
  /\ req'.method = method
  /\ req'.args = args

\* the current value a read of key k of primitive p returns in Space d
ValueIn(d, p, k) ==
  IF Exists(d.store[p][k]) THEN Latest(d.store[p][k]).value ELSE Null

\* the number of keys branch b holds over all its Spaces
HeldKeys(b) == Sum([s \in Spaces |-> KeysIn(Data(b, s))], Spaces)

\* C17: a successful branch.fork(destination) makes destination an active
\* child of the current branch; right after it, in every space, every key
\* reads on destination the value it reads on the source; keysCopied is
\* the number of keys copied, which is the number of keys the source holds
\* (so it is positive when the source holds a key); and the current branch
\* is still the source.
ForkCopiesCurrentState ==
  [][\A d \in Branches :
       IsBranchCall("branch.fork", <<d>>) /\ ret'.err = "" =>
         /\ bm'.branches[d] = Branch(bm.branch)
         /\ bm'.branch = bm.branch
         /\ currentBranch' = bm.branch
         /\ \A s \in Spaces, pr \in Prims, k \in Keys :
              ValueIn(Data(d, s)', pr, k) = ValueIn(Data(bm.branch, s)', pr, k)
         /\ \A s \in Spaces : Data(bm.branch, s)' = Data(bm.branch, s)
         /\ ret'.val.source = bm.branch
         /\ ret'.val.destination = d
         /\ ret'.val.keysCopied = HeldKeys(d)'
         /\ ret'.val.keysCopied = HeldKeys(bm.branch)
         /\ HeldKeys(bm.branch) > 0 => ret'.val.keysCopied > 0]_vars

\* a fork of a branch holding one key, another key of it being deleted
ForkedOneKeyOfTwo ==
  /\ req.method = "branch.fork"
  /\ ret.err = ""
  /\ ret.val.keysCopied = 1
  /\ Len(store["kv"][<<1, 2>>]) = 2
  /\ bm.branches["feature"].parentId = "default"

\* the step is a primitive write or delete of the current branch and space
IsWrite ==
  /\ ncalls' = ncalls + 1
  /\ req'.method \in {"kv.set", "kv.delete"}

\* every key of branch b reads after the step what it read before it
KeysUnchanged(b) ==
  \A s \in Spaces, pr \in Prims, k \in Keys :
    ValueIn(Data(b, s)', pr, k) = ValueIn(Data(b, s), pr, k)

\* destination was forked from source and both still exist
ForkedFrom(destination, source) ==
  /\ Active(destination)
  /\ Active(source)
  /\ bm.branches[destination].parentId = source

\* C18: fork isolation.  For a destination forked from a source, at any
\* later point: a write or delete made while the source is current leaves
\* every key of destination unchanged, one made while destination is
\* current leaves every key of the source unchanged, and a switch, which
\* makes the named branch the current one, changes no key of either.
ForkIsolation ==
  [][\A d \in Branches, src \in Branches :
       ForkedFrom(d, src) =>
         /\ IsWrite /\ currentBranch = src => KeysUnchanged(d)
         /\ IsWrite /\ currentBranch = d => KeysUnchanged(src)
         /\ \A name \in {d, src} :
              IsBranchCall("branch.switch", <<name>>) =>
                /\ ret'.err = ""
                /\ currentBranch' = name
                /\ KeysUnchanged(d)
                /\ KeysUnchanged(src)]_vars

\* source and destination have diverged in both directions: after the
\* fork the source overwrote the key, the destination deleted it
ForkDiverged ==
  /\ ForkedFrom("feature", "default")
  /\ currentBranch = "default"
  /\ ValueIn(Data("default", "default"), "kv", <<1>>) = 2
  /\ ValueIn(Data("feature", "default"), "kv", <<1>>) = Null
  /\ Len(Data("feature", "default").store["kv"][<<1>>]) = 2

\* C19: the pair (branch, space) is the isolation unit.  The data of a
\* pair of a living branch changes only by a primitive write issued while
\* that pair is the current one, and such a write moves no pointer; a
\* successful branch.switch or space.switch makes the named branch or
\* space current and changes no data, so that switching away and back
\* reads what was last written under the pair; a branch made with
\* branch.create is active, has no parent and holds no key.
PairIsIsolationUnit ==
  [][/\ \A b \in Branches, s \in Spaces :
          Active(b) /\ Active(b)' /\ Data(b, s)' # Data(b, s) =>
            IsWrite /\ b = currentBranch /\ s = currentSpace
     /\ IsWrite => currentBranch' = currentBranch
                     /\ currentSpace' = currentSpace
     /\ \A name \in Branches :
          IsBranchCall("branch.switch", <<name>>) /\ ret'.err = "" =>
            currentBranch' = name /\ currentSpace' = currentSpace
     /\ \A name \in Spaces :
          IsBranchCall("space.switch", <<name>>) =>
            /\ ret'.err = ""
            /\ currentSpace' = name
            /\ currentBranch' = currentBranch
     /\ \A name \in Branches :
          IsBranchCall("branch.create", <<name>>) /\ ret'.err = "" =>
            /\ bm'.branches[name] = Branch("")
            /\ \A s \in Spaces : Data(name, s)' = EmptyData
            /\ HeldKeys(name)' = 0]_vars

\* x = 1 written on default, x = 2 on a created branch, and back on default
\* the read returns 1
SwitchedBackReadsOwnValue ==
  /\ req.method = "branch.switch"
  /\ ret.err = ""
  /\ currentBranch = "default"
  /\ bm.branches["feature"] = Branch("")
  /\ KvNamespace_get(<<1>>, NoOpts) = 1
  /\ ValueIn(Data("feature", currentSpace), "kv", <<1>>) = 2

\* the branch graph, the Spaces, the pointers and all data are as before
NothingChanged ==
  /\ bm'.branches = bm.branches
  /\ bm'.spaces = bm.spaces
  /\ currentBranch' = currentBranch
  /\ currentSpace' = currentSpace
  /\ \A b \in Branches, s \in Spaces : Data(b, s)' = Data(b, s)

\* C20: branch.delete(name) of the current branch is rejected and changes
\* no branch and no data; a delete of another existing branch succeeds,
\* and after a successful delete the branch is not listed, does not exist,
\* and has no Spaces and no data; a deleted branch stays deleted; and in
\* every reachable state the current branch is an active branch.
DeleteSparesCurrentBranch ==
  /\ [](Active(currentBranch) /\ currentBranch \in listBranches)
  /\ [][/\ \A name \in Branches :
            IsBranchCall("branch.delete", <<name>>) =>
              /\ name = currentBranch => ret'.err # "" /\ NothingChanged
              /\ Active(name) /\ name # currentBranch => ret'.err = ""
              /\ ret'.err = "" =>
                   /\ name \notin listBranches'
                   /\ branchExists(name)' = 0
                   /\ bm'.spaces[name] = {}
                   /\ \A s \in Spaces : Data(name, s)' = EmptyData
                   /\ \A b \in Branches \ {name}, s \in Spaces :
                        /\ Data(b, s)' = Data(b, s)
                        /\ bm'.branches[b] = bm.branches[b]
              /\ ret'.err # "" => NothingChanged
        /\ \A b \in Branches :
            bm.branches[b].status = "deleted" =>
              bm'.branches[b].status = "deleted"]_vars

\* the fork of a branch holding a key was deleted with its data, and the
\* delete of the current branch was then rejected
DeleteOfCurrentRejected ==
  /\ req.method = "branch.delete"
  /\ req.args = <<"default">>
  /\ ret.err = "ValidationError"
  /\ currentBranch = "default"
  /\ bm.branches["feature"] = [status |-> "deleted", parentId |-> "default"]
  /\ HeldKeys("default") > 0
  /\ HeldKeys("feature") = 0

\* ------------------------------------------------------------------------
\* Properties of merge (SpecMerge)
\* ------------------------------------------------------------------------
\* key k of primitive p in space s was written or deleted on branch f after
\* f was forked
ChangedOnFork(f, s, pr, k) ==
  LET h == Data(f, s).store[pr][k]
  IN Len(h) > 0 /\ Latest(h).version > bm.base[f]

\* C21: branch.merge(fork) into the branch the fork was taken from, with
\* the default strategy or 'last_writer_wins', succeeds; every key the fork
\* wrote since the fork then reads on the target the fork's value (so a key
\* added on the fork is visible), keysApplied is at least 1 when the fork
\* added a key the target does not hold, and every key the fork did not
\* change keeps its records on the target.  The fork itself is unchanged.
MergeAppliesForkKeys ==
  [][\A f \in Branches, st \in {NoStrategy, "last_writer_wins"} :
       IsBranchCall("branch.merge", <<f, st>>)
         /\ ForkedFrom(f, currentBranch) =>
           /\ ret'.err = ""
           /\ currentBranch' = currentBranch
           /\ \A s \in Spaces, pr \in Prims, k \in Keys :
                /\ Data(f, s)' = Data(f, s)
                /\ IF ChangedOnFork(f, s, pr, k)
                   THEN /\ ValueIn(Data(currentBranch, s)', pr, k)
                             = ValueIn(Data(f, s), pr, k)
                        /\ ret'.val.keysApplied >= 1
                   ELSE Data(currentBranch, s)'.store[pr][k]
                          = Data(currentBranch, s).store[pr][k]
           /\ ret'.val.keysApplied =
                Cardinality({c \in Spaces \X Prims \X Keys :
                               ChangedOnFork(f, c[1], c[2], c[3])})]_vars

\* the test: a key set before the fork, another added on the fork, and
\* after the merge the target holds both
MergedNewKey ==
  /\ req.method = "branch.merge"
  /\ ret.err = ""
  /\ ret.val.keysApplied = 1
  /\ ret.val.conflicts = {}
  /\ currentBranch = "default"
  /\ ForkedFrom("feature", "default")
  /\ Len(store["kv"][<<1>>]) = 1
  /\ KvNamespace_get(<<1>>, NoOpts) = 1
  /\ KvNamespace_get(<<1, 2>>, NoOpts) = 2
  /\ Len(Data("feature", "default").store["kv"][<<1>>]) = 1

\* the version the two branches had in common: the clock when one of them
\* was forked from the other
ForkVersion(a, b) == IF ForkedFrom(a, b) THEN bm.base[a] ELSE bm.base[b]

\* the keys, as <<space, primitive, key>>, written or deleted on both
\* branches since they forked
ChangedOnBoth(a, b) ==
  {c \in Spaces \X Prims \X Keys :
     \A x \in {a, b} :
       LET h == Data(x, c[1]).store[c[2]][c[3]]
       IN Len(h) > 0 /\ Latest(h).version > ForkVersion(a, b)}

\* C22: for a source and a current branch related by a fork, with keys
\* modified on both since the fork: merge with 'strict' fails with a
\* Conflict error and changes nothing; merge with 'last_writer_wins'
\* succeeds, every such key then reads the source's value, and the
\* conflict list has exactly one entry per such key; whatever the
\* strategy, a key modified on one side only is never listed.
MergeConflicts ==
  [][\A f \in Branches, st \in Strategies \cup {NoStrategy} :
       IsBranchCall("branch.merge", <<f, st>>)
         /\ (ForkedFrom(f, currentBranch) \/ ForkedFrom(currentBranch, f)) =>
           LET both == ChangedOnBoth(f, currentBranch)
               entries == {MergeConflict(c[3], c[1]) : c \in both}
           IN /\ st = "strict" /\ both # {} =>
                   ret'.err = "ConflictError" /\ NothingChanged
              /\ st = "strict" /\ both = {} => ret'.err = ""
              /\ st = "last_writer_wins" =>
                   /\ ret'.err = ""
                   /\ ret'.val.conflicts = entries
                   /\ Cardinality(ret'.val.conflicts) = Cardinality(both)
                   /\ \A c \in both :
                        ValueIn(Data(currentBranch, c[1])', c[2], c[3])
                          = ValueIn(Data(f, c[1]), c[2], c[3])
              /\ ret'.err = "" => ret'.val.conflicts \subseteq entries]_vars

\* a key set before the fork, overwritten on the fork and deleted on the
\* target, and merged with last_writer_wins: one conflict, the fork's value
MergedOverConflict ==
  /\ req.method = "branch.merge"
  /\ req.args = <<"feature", "last_writer_wins">>
  /\ ret.err = ""
  /\ ret.val.conflicts = {MergeConflict(<<1>>, "default")}
  /\ currentBranch = "default"
  /\ Len(store["kv"][<<1>>]) = 3
  /\ store["kv"][<<1>>][2].value = Null
  /\ KvNamespace_get(<<1>>, NoOpts) = 2

\* the same conflict refused by strict
StrictRefusedConflict ==
  /\ req.method = "branch.merge"
  /\ req.args = <<"feature", "strict">>
  /\ ret.err = "ConflictError"
  /\ KvNamespace_get(<<1>>, NoOpts) = Null
  /\ ValueIn(Data("feature", "default"), "kv", <<1>>) = 2

\* ------------------------------------------------------------------------
\* Properties of the event log (SpecEvents)
\* ------------------------------------------------------------------------
\* C23: within a space, sequence numbers are the positions in the log:
\* every event carries its position, counted from 0; an append returns
\* count() as it was before the call, whatever the event type, and raises
\* count() by one; get of the returned sequence is the appended event; no
\* other operation changes count(); and get(s) of every s < count() is
\* the same event after every operation, in every space.
SequencesGapless ==
  /\ [](\A n \in 0..(EventsNamespace_count - 1) :
         /\ EventsNamespace_get(n, NoOpts) # NoEvent
         /\ EventsNamespace_get(n, NoOpts).version = n)
  /\ [][/\ \A t \in EventTypes, x \in Vals :
            IsCall("events.append", <<t, x>>) =>
              /\ ret'.err = ""
              /\ ret'.val = EventsNamespace_count
              /\ EventsNamespace_count' = EventsNamespace_count + 1
              /\ \A n \in 0..MaxCalls :
                   n = EventsNamespace_count =>
                     EventsNamespace_get(n, NoOpts)' =
                       [type |-> t, value |-> x, version |-> n,
                        timestamp |-> now]
        /\ req'.method # "events.append" =>
              \A sp \in Spaces :
                Len(Data(currentBranch, sp).events')
                  = Len(Data(currentBranch, sp).events)
        /\ currentSpace' = currentSpace =>
              \A n \in 0..(EventsNamespace_count - 1) :
                EventsNamespace_get(n, NoOpts)' = EventsNamespace_get(n, NoOpts)
        /\ \A sp \in Spaces :
              \A i \in 1..Len(Data(currentBranch, sp).events) :
                Data(currentBranch, sp).events'[i]
                  = Data(currentBranch, sp).events[i]]_vars

\* three appends of two types over time; the third returned sequence 2
AppendedThree ==
  /\ req.method = "events.append"
  /\ ret.val = 2
  /\ EventsNamespace_count = 3
  /\ EventsNamespace_get(0, NoOpts).type = "t1"
  /\ EventsNamespace_get(1, NoOpts).type = "t2"
  /\ EventsNamespace_get(2, NoOpts).type = "t1"
  /\ EventsNamespace_get(0, NoOpts).timestamp
       < EventsNamespace_get(2, NoOpts).timestamp

\* the options a caller of events.list passes
ListOptions ==
  [limit : {Undefined, 0, 1, 2}, after : {Undefined, 0, 1},
   asOf : {Undefined} \cup Times]

\* event e is one that list(type, opts) has to return, before truncation
Listed(e, eventType, opts) ==
  /\ e.type = eventType
  /\ opts.after = Undefined \/ e.version > opts.after
  /\ opts.asOf = Undefined \/ e.timestamp <= opts.asOf

\* the number of events list(type, opts) has to return
ListedCount(eventType, opts) ==
  LET n == Cardinality({i \in 1..Len(events) :
                          Listed(events[i], eventType, opts)})
  IN IF opts.limit = Undefined \/ n < opts.limit THEN n ELSE opts.limit

\* C24: events.list(type, {after, limit, asOf}) returns events of the log
\* that have the type, a sequence greater than after and a timestamp not
\* after asOf, in ascending sequence order, as many as there are up to
\* limit, and those with the lowest sequences; so never more than limit,
\* and with no options every event of the type.
ListIsFilteredOrderedCapped ==
  \A t \in EventTypes, opts \in ListOptions :
    LET r == EventsNamespace_list(t, opts)
    IN /\ \A i \in 1..Len(r) :
            /\ Listed(r[i], t, opts)
            /\ r[i] = EventsNamespace_get(r[i].version, NoOpts)
       /\ \A i \in 1..(Len(r) - 1) : r[i].version < r[i + 1].version
       /\ Len(r) = ListedCount(t, opts)
       /\ opts.limit # Undefined => Len(r) <= opts.limit
       /\ \A j \in 1..Len(events) :
            Listed(events[j], t, opts)
              /\ (\A i \in 1..Len(r) : r[i] # events[j]) =>
                \A i \in 1..Len(r) : r[i].version < events[j].version

\* three events of one type, the last at a later time: limit truncates,
\* after skips, asOf hides, and no options list all three
ListedPage ==
  /\ EventsNamespace_count = 3
  /\ Len(EventsNamespace_list("t1", [limit |-> Undefined, after |-> Undefined,
                                      asOf |-> Undefined])) = 3
  /\ Len(EventsNamespace_list("t1", [limit |-> 2, after |-> Undefined,
                                      asOf |-> Undefined])) = 2
  /\ Len(EventsNamespace_list("t1", [limit |-> Undefined, after |-> Undefined,
                                      asOf |-> 1])) = 2
  /\ EventsNamespace_list("t1", [limit |-> 1, after |-> 0, asOf |-> Undefined])
       = <<EventsNamespace_get(1, NoOpts)>>

\* ------------------------------------------------------------------------
\* Properties of vector collections (SpecVector)
\* ------------------------------------------------------------------------
\* the vector has the collection's dimension and finite components only
Storable(collection, vector) ==
  /\ Len(vector) = vectors[collection].dimension
  /\ \A i \in 1..Len(vector) : vector[i] # NaN /\ vector[i] # Infinity

\* C25: in every reachable state every stored vector has the length of
\* its collection's dimension and only finite components; an upsert into
\* an existing collection of a vector of another length fails with a
\* Constraint error, one with a NaN or infinite component is rejected,
\* and the rejected call leaves the collection's keys, records and the
\* version clock unchanged.
StoredVectorsFitDimension ==
  /\ [](\A c \in Collections, k \in VKeys :
         \A i \in 1..Len(vectors[c].recs[k]) :
           Storable(c, vectors[c].recs[k][i].embedding))
  /\ [][\A c \in Collections, k \in VKeys, v \in Vectors, m \in Vals :
          IsCall("vector.upsert", <<c, k, v, m>>)
            /\ CollectionAt(c, Undefined) /\ ~Storable(c, v) =>
              /\ ret'.err # ""
              /\ Len(v) # vectors[c].dimension => ret'.err = "ConstraintError"
              /\ vectors' = vectors
              /\ version' = version
              /\ \A j \in VKeys :
                   VectorNamespace_get(c, j, NoOpts)'
                     = VectorNamespace_get(c, j, NoOpts)]_vars

\* a vector is stored, and a later upsert of a NaN component over the same
\* key was rejected
RejectedNaN ==
  /\ req.method = "vector.upsert"
  /\ req.args = <<"c", 1, <<1, NaN>>, 1>>
  /\ ret.err = "ConstraintError"
  /\ Len(vectors["c"].recs[1]) = 1
  /\ VectorNamespace_get("c", 1, NoOpts).val.embedding = <<0, 1>>

\* C26: vector.batchUpsert into an existing collection is all-or-nothing:
\* with an entry of the wrong dimension or with a non-finite component
\* anywhere in the batch the call fails and no record and no version
\* changes, also for valid entries before the bad one; a successful call
\* returns one version per entry, increasing in entry order, and every
\* entry is stored under its version.
BatchUpsertAllOrNothing ==
  [][\A c \in Collections, entries \in Batches :
       IsCall("vector.batchUpsert", <<c, entries>>)
         /\ CollectionAt(c, Undefined) =>
           /\ (\E i \in 1..Len(entries) : ~Storable(c, entries[i].vector)) =>
                /\ ret'.err # ""
                /\ vectors' = vectors
                /\ version' = version
           /\ (\A i \in 1..Len(entries) : Storable(c, entries[i].vector)) =>
                ret'.err = ""
           /\ ret'.err = "" =>
                /\ Len(ret'.val) = Len(entries)
                /\ \A i \in 1..Len(entries) :
                     /\ ret'.val[i] = version + i
                     /\ \E n \in 1..Len(vectors'[c].recs[entries[i].key]) :
                          LET r == vectors'[c].recs[entries[i].key][n]
                          IN /\ r.version = ret'.val[i]
                             /\ r.embedding = entries[i].vector
                             /\ r.metadata = entries[i].metadata
                /\ \A k \in VKeys :
                     Len(vectors'[c].recs[k]) = Len(vectors[c].recs[k])
                       + Cardinality({i \in 1..Len(entries) :
                                        entries[i].key = k})]_vars

\* after a batch of two was stored, a batch whose second entry has the
\* wrong dimension was refused as a whole
BatchRefusedWhole ==
  /\ req.method = "vector.batchUpsert"
  /\ req.args = <<"c", <<BatchVectorEntry(1, <<1, 0>>, 1),
                          BatchVectorEntry(2, <<1>>, 1)>>>>
  /\ ret.err = "ConstraintError"
  /\ Len(vectors["c"].recs[1]) = 1
  /\ Len(vectors["c"].recs[2]) = 1
  /\ version = 3

\* the options a caller of vector.search passes with a metadata filter
FilterOptions ==
  [limit : {Undefined, 0, 1, 2}, metric : {NoMetric, "euclidean"},
   filter : {<<[op |-> "eq", value |-> 1]>>, <<[op |-> "eq", value |-> 2]>>,
             <<[op |-> "gte", value |-> 1], [op |-> "ne", value |-> 1]>>},
   asOf : {Undefined}]

\* the keys of the collection whose metadata satisfies every predicate
Passing(c, filter) ==
  {key \in VKeys :
     /\ VectorNamespace_get(c, key, NoOpts).val # NoVector
     /\ \A i \in 1..Len(filter) :
          Holds(filter[i], VectorNamespace_get(c, key, NoOpts).val.metadata)}

KeysResumable ==
  [][\A prefix \in Prefixes, limit \in {1, 2} :
       IsCall("kv.keys", <<prefix, limit>>) =>
         /\ Len(ret'.val) <= limit
         /\ \A i \in 1..Len(ret'.val) : IsPrefix(prefix, ret'.val[i])
         /\ \A i \in 1..(Len(ret'.val) - 1) :
              LexLess(ret'.val[i], ret'.val[i + 1])
         /\ req.method = "kv.keys" /\ req.args = <<prefix, limit>> =>
              \A i \in 1..Len(ret'.val), j \in 1..Len(ret.val) :
                /\ ret'.val[i] # ret.val[j]
                /\ LexLess(ret.val[j], ret'.val[i])]_vars

\* ------------------------------------------------------------------------
\* Properties of error propagation (SpecTxnFault)
\* ------------------------------------------------------------------------
\* the error kinds of the SDK: the subclasses of StrataError
StrataErrors ==
  {"NotFoundError", "ValidationError", "ConflictError", "StateError",
   "ConstraintError", "AccessDeniedError", "IoError"}

\* a step in which db.transaction() itself awaits an engine call: begin,
\* the commit or rollback after fn, the rollback of the catch block
TransactionAwait ==
  /\ ncalls' = ncalls
  /\ tx.pc \in {"idle", "returned", "caught"}
  /\ tx'.pc # tx.pc

\* C29: no operation silently swallows an error.  When an engine call
\* issued by a caller fails, the call fails with a StrataError kind; when
\* an engine call awaited by db.transaction fails (begin, commit, or the
\* rollback after a failed callback or failed commit), db.transaction
\* fails with a StrataError kind.
ErrorsSurface ==
  [][/\ (ncalls' = ncalls + 1 /\ ret'.err # "") => ret'.err \in StrataErrors
     /\ (TransactionAwait /\ ret'.err # "") =>
          /\ tx'.pc \in {"caught", "rejected"}
          /\ tx'.err \in StrataErrors]_vars

\* ------------------------------------------------------------------------
\* Properties of transaction ownership (SpecOwner)
\* ------------------------------------------------------------------------
\* caller w has written outside fn and its call succeeded
WroteOutside(w) == wr[w].pc = "set" /\ wr[w].res = 1

\* C30: a transaction is owned by the caller that began it.  A kv.set
\* issued by another caller on the same handle while the callback of
\* db.transaction is suspended succeeds as an independent atomic write:
\* it is applied at once, it is not added to the transaction's buffer,
\* and the record it wrote stays in the key's history whether the
\* transaction commits or rolls back.
OutsideWriteIndependent ==
  /\ [][\A w \in Writers, k \in Keys, v \in Vals :
          (IsCall("kv.set", <<k, v>>) /\ wr'[w] # wr[w]) =>
            /\ ret'.err = ""
            /\ txn'.buffer = txn.buffer
            /\ ValueOf(store'.kv[k]) = v]_vars
  /\ [](\A w \in Writers :
          WroteOutside(w) =>
            \E i \in 1..Len(store.kv[wr[w].cell]) :
              store.kv[wr[w].cell][i].value = wr[w].x)

\* ------------------------------------------------------------------------
\* Properties of cas and init without a version (SpecState, SpecCell)
\* ------------------------------------------------------------------------
\* C31: state.cas(cell, value) with expectedVersion omitted succeeds only
\* if the cell does not exist: on a missing cell it creates the cell with
\* that value and returns its new version; on an existing cell it returns
\* null and leaves value, version and history unchanged.
CasOmittedCreatesOnly ==
  [][\A c \in Keys, x \in Vals :
       IsCall("state.cas", <<c, x, Undefined>>) =>
         IF Present("state", c)
         THEN /\ ret'.val = Null
              /\ ret'.err = ""
              /\ store' = store
              /\ version' = version
         ELSE /\ ret'.err = ""
              /\ version' > version
              /\ ret'.val = version'
              /\ stateGet(c, Undefined)' = x
              /\ stateGetVersioned(c)'.version = version'
              /\ stateHistory(c)' =
                   Append(stateHistory(c), VersionedRecord(x, version', now))]_vars

\* a cas without a version was refused on an existing cell
CasOmittedRefused ==
  /\ req.method = "state.cas"
  /\ req.args[3] = Undefined
  /\ ret.val = Null
  /\ Present("state", req.args[1])
  /\ stateGet(req.args[1], Undefined) # req.args[2]

\* C32: state.init(cell, value) creates the cell with that value when it
\* does not exist; when it exists init is a no-op that returns the cell's
\* current version and leaves value, version and history unchanged (so
\* init is idempotent and never overwrites a set value).
InitCreatesOrKeeps ==
  [][\A c \in Keys, x \in Vals :
       IsCall("state.init", <<c, x>>) =>
         IF Present("state", c)
         THEN /\ ret'.val = stateGetVersioned(c).version
              /\ ret'.err = ""
              /\ store' = store
              /\ version' = version
         ELSE /\ ret'.err = ""
              /\ version' > version
              /\ ret'.val = version'
              /\ stateGet(c, Undefined)' = x
              /\ stateHistory(c)' =
                   Append(stateHistory(c), VersionedRecord(x, version', now))]_vars

\* init was called with another value on a cell that was set: the set
\* value is still read and init returned the version of that set
InitAfterSetKept ==
  /\ req.method = "state.init"
  /\ Present("state", req.args[1])
  /\ stateGet(req.args[1], Undefined) # req.args[2]
  /\ ret.val = stateGetVersioned(req.args[1]).version

\* ------------------------------------------------------------------------
\* Properties of retention pruning (SpecRetention)
\* ------------------------------------------------------------------------
Records(h) == {h[i] : i \in 1..Len(h)}

\* C33: retention pruning (retentionApply, compact) never changes what a
\* current read returns.  For every key it removes only records older
\* than the threshold that another record at or before the threshold
\* supersedes, keeps the order of the others, and get(key) and
\* get(key, {asOf: t}) for every t at or after the threshold return the
\* same value before and after.
PruningKeepsReads ==
  [][\A threshold \in Thresholds :
       (IsCall("retentionApply", <<threshold>>)
          \/ IsCall("compact", <<threshold>>)) =>
         /\ ret'.err = ""
         /\ version' = version
         /\ \A k \in Keys :
              /\ kvGet(k, Undefined)' = kvGet(k, Undefined)
              /\ kvGetVersioned(k)' = kvGetVersioned(k)
              /\ \A t \in threshold..(MaxTime + 1) :
                   kvGet(k, t)' = kvGet(k, t)
              /\ kvHistory(k)' =
                   SelectSeq(kvHistory(k), LAMBDA r : r \in Records(kvHistory(k)'))
              /\ \A i \in 1..Len(kvHistory(k)) :
                   kvHistory(k)[i] \notin Records(kvHistory(k)') =>
                     /\ kvHistory(k)[i].timestamp < threshold
                     /\ \E j \in (i + 1)..Len(kvHistory(k)) :
                          kvHistory(k)[j].timestamp <= threshold]_vars

\* a pruning run removed the first of two records of a key
PrunedOldRecord ==
  /\ req.method = "retentionApply"
  /\ ncalls = 3
  /\ \E k \in Keys :
       /\ Len(kvHistory(k)) = 1
       /\ kvHistory(k)[1].version = 2

\* ------------------------------------------------------------------------
\* Properties of JSON path writes (SpecTime)
\* ------------------------------------------------------------------------
\* C34: json.set(key, path, value) with a sub-path edits only that path
\* and records one whole-document version: afterwards json.get(key, path)
\* returns value, the other field of the document reads as before,
\* json.history(key) has grown by exactly one record holding the whole
\* document, and json.get(key, '$', {asOf: t}) for a t before the edit
\* returns the document as it was; with path '$' the value replaces the
\* whole document.
PathEditIsOneDocumentVersion ==
  [][\A k \in Keys, path \in Paths, value \in JsonDocs \cup Vals :
       IsCall("json.set", <<k, path, value>>) =>
         /\ ret'.err = ""
         /\ ret'.val = version'
         /\ JsonNamespace_get(k, path, KvGetOptions(Undefined))' = value
         /\ \A q \in {"$.x", "$.y"} :
              (path # "$" /\ q # path) =>
                JsonNamespace_get(k, q, KvGetOptions(Undefined))' =
                  JsonNamespace_get(k, q, KvGetOptions(Undefined))
         /\ JsonNamespace_history(k)' =
              Append(JsonNamespace_history(k),
                     VersionedRecord(
                       JsonNamespace_get(k, "$", KvGetOptions(Undefined))',
                       version', now))
         /\ \A t \in 0..(now - 1) :
              JsonNamespace_get(k, "$", KvGetOptions(t))' =
                JsonNamespace_get(k, "$", KvGetOptions(t))
         /\ \A other \in Keys \ {k} :
              JsonNamespace_history(other)' = JsonNamespace_history(other)]_vars

\* a sub-path edit of an existing document, made at a later time than
\* the document: one field changed, the other kept, the old document
\* still read as of the earlier time
EditedOnePath ==
  /\ req.method = "json.set"
  /\ req.args[2] = "$.x"
  /\ \E k \in Keys :
       /\ req.args[1] = k
       /\ JsonNamespace_get(k, "$", KvGetOptions(Undefined)) = JsonDoc(2, 1)
       /\ Len(JsonNamespace_history(k)) = 2
       /\ now = 2
       /\ JsonNamespace_get(k, "$", KvGetOptions(1)) = JsonDoc(1, 1)

\* ------------------------------------------------------------------------
\* Properties of a settled db.transaction() (SpecSettle)
\* ------------------------------------------------------------------------
\* C35: whenever a db.transaction(fn, opts) call whose begin succeeded
\* settles (resolved or rejected: a throwing callback, a failing commit,
\* a read-only run), no transaction is active on the handle:
\* txnIsActive() is false and txnInfo() is null at that moment, and a
\* begin() that follows starts a transaction.
SettledLeavesNoTransaction ==
  [][/\ (Settled' /\ ~Settled) =>
          /\ ~txnIsActive'
          /\ txnInfo' = Null
          /\ txn'.status \in {"committed", "rolledback"}
     /\ \A ro \in {TRUE, FALSE} :
          (Settled /\ ret.method \in {"commit", "rollback"}
             /\ IsCall("begin", <<ro>>)) =>
            /\ ret'.err = ""
            /\ txnIsActive'
            /\ txn'.id = txn.id + 1]_vars

\* a db.transaction() was rejected by a failing commit and the begin()
\* after it has started a new transaction
BeganAfterFailedCommit ==
  /\ Settled
  /\ tx.pc = "rejected"
  /\ tx.err = "IoError"
  /\ req.method = "begin"
  /\ ret.method = "begin"
  /\ ret.err = ""
  /\ txnIsActive

\* ------------------------------------------------------------------------
\* Properties of a db.transaction() whose begin fails (SpecTxnFault)
\* ------------------------------------------------------------------------
\* the step in which db.transaction() awaits its begin
TransactionBegins == tx.pc = "idle" /\ tx'.pc # "idle"

\* C36: if begin() fails inside db.transaction(fn) because a transaction
\* is already active on the handle, fn is never invoked and the failed
\* call calls neither commit nor rollback: the active transaction and
\* its buffered writes are untouched and transaction() rejects with the
\* begin error.
FailedBeginTouchesNothing ==
  /\ [][(TransactionBegins /\ txnIsActive) =>
          /\ ret'.method = "begin"
          /\ ret'.err = "StateError"
          /\ tx'.pc = "rejected"
          /\ tx'.err = ret'.err
          /\ ~tx'.begun
          /\ txn' = txn
          /\ store' = store
          /\ version' = version]_vars
  /\ []((tx.pc = "rejected" /\ ~tx.begun) =>
          /\ tx.commits = 0
          /\ tx.rollbacks = 0
          /\ tx.writes = <<>>
          /\ tx.result = Null
          /\ ~tx.thrown
          /\ ret.method = "begin"
          /\ txnIsActive)

\* db.transaction() was called while a manual transaction held a
\* buffered write: it was rejected and the write is still buffered
RejectedBeginKeptBuffer ==
  /\ tx.pc = "rejected"
  /\ ~tx.begun
  /\ tx.err = "StateError"
  /\ txnIsActive
  /\ Len(txn.buffer) = 1

\* ------------------------------------------------------------------------
\* Properties of snapshots across branches and spaces (SpecSnapBranch)
\* ------------------------------------------------------------------------
\* the value of the last record of history h not after ts
AsOfValue(h, ts) ==
  LET i == AsOfIndex(h, ts)
  IN IF i = 0 THEN Null ELSE h[i].value

\* the keys of Space d that hold a value as of ts
AsOfKeys(d, ts) == {k \in Keys : AsOfValue(d.store["kv"][k], ts) # Null}

\* after the step, the reads of the snapshot at ts are those of the data
\* that Space d held before the step, as of ts
SnapshotReadsSpace(ts, d) ==
  /\ \A k \in Keys :
       KvSnapshot_get(ts, k)' = AsOfValue(d.store["kv"][k], ts)
  /\ KvSnapshot_keys(ts, KvKeysOptions(NoPrefix, Undefined))' =
       Sorted(AsOfKeys(d, ts))

\* C37: a snapshot db.at(ts) is bound only to its timestamp, not to a
\* branch or space: each of its reads is resolved against the handle's
\* current branch and space, so right after a branch.switch or
\* space.switch the snapshot returns the data of the newly selected
\* branch and space as of ts.
SnapshotFollowsCurrentBranch ==
  [][/\ \A name \in Branches :
          (IsBranchCall("branch.switch", <<name>>) /\ ret'.err = "") =>
            \A ts \in ReadTimes :
              SnapshotReadsSpace(ts, Data(name, currentSpace))
     /\ \A name \in Spaces :
          IsBranchCall("space.switch", <<name>>) =>
            \A ts \in ReadTimes :
              SnapshotReadsSpace(ts, Data(currentBranch, name))]_vars

\* after a switch back to default, the snapshot at time 1 reads the
\* value of default, while the branch that was current before holds
\* another value as of time 1
SnapshotSwitchedData ==
  /\ req.method = "branch.switch"
  /\ ret.err = ""
  /\ currentBranch = "default"
  /\ KvSnapshot_get(1, <<1>>) = 1
  /\ AsOfValue(Data("feature", currentSpace).store["kv"][<<1>>], 1) = 2

\* ------------------------------------------------------------------------
\* Properties of JSON key paging (SpecDocs)
\* ------------------------------------------------------------------------
\* the keys of the documents the store holds, in order
DocList ==
  Sorted({k \in DOMAIN store["json"] :
            JsonNamespace_get(k, "$", KvGetOptions(Undefined)) # Null})

\* the number of keys of the sequence all that are not after cursor
Position(all, cursor) ==
  IF cursor = NoCursor
  THEN 0
  ELSE Cardinality({i \in 1..Len(all) : ~LexLess(cursor, all[i])})

\* C38: json.keys(opts) always lists with a limit, 100 when opts.limit is
\* omitted: a page holds at most 100 keys, the keys that follow the
\* cursor in order (the first keys when no cursor is given), and it comes
\* with a cursor exactly when more keys remain; the cursor of a page
\* continues right after the last key of that page, so calling json.keys
\* with each returned cursor until none is returned yields every key
\* exactly once.
JsonKeysPaged ==
  [][\A cursor \in {NoCursor} \cup DocKeys :
       IsCall("json.keys", <<cursor>>) =>
         LET all == DocList
             pos == Position(all, cursor)
             last == IF pos + 100 < Len(all) THEN pos + 100 ELSE Len(all)
         IN /\ ret'.err = ""
            /\ store' = store
            /\ Len(ret'.val.keys) <= 100
            /\ ret'.val.keys = SubSeq(all, pos + 1, last)
            /\ (ret'.val.cursor # NoCursor) <=> (last < Len(all))
            /\ ret'.val.cursor # NoCursor =>
                 Position(all, ret'.val.cursor) = last
            /\ cursor # NoCursor =>
                 /\ ret.method = "jsonList"
                 /\ cursor = ret.val.cursor
                 /\ pos > 0 /\ all[pos] = cursor]_vars

\* a store of 102 documents was paged: the first page held 100 keys and
\* a cursor, the page asked with that cursor holds the last two keys and
\* no cursor
PagedAllDocs ==
  /\ req.method = "json.keys"
  /\ req.args[1] = <<100>>
  /\ ret.method = "jsonList"
  /\ ret.val.keys = << <<101>>, <<102>> >>
  /\ ret.val.cursor = NoCursor

====
